---- MODULE Spec2Model ----
(***************************************************************************)
(* Closing-platform workflow engine: the transactions, tasks and documents *)
(* tables and the operations of backend/services/state_machine.py,         *)
(* backend/api/transactions.py and backend/api/tasks.py.                   *)
(*                                                                         *)
(* The state is the content of the database as it is after each commit,   *)
(* and the sessions that are open.  Every handler opens its own session,   *)
(* loads its row, changes the loaded object, commits and refreshes.  In    *)
(* Spec, SpecGate and SpecClock an action is a whole handler; in SpecRace  *)
(* two server processes run create and advance query by query.             *)
(*                                                                         *)
(* now is the reading of datetime.utcnow(); it moves between calls in     *)
(* SpecClock and also within a call in SpecReadings.                       *)
(*                                                                         *)
(* Enum columns (SQLEnum(cls)) hold the member; the database stores the    *)
(* member NAME.  A member is written here by its name and its .value is    *)
(* given by StageValue.  String columns (Task.related_stage) and history   *)
(* entries hold the .value strings, as the code writes them.               *)
(***************************************************************************)
EXTENDS Integers, Sequences, FiniteSets, TLC

(* ---------------------------------------------------------------------- *)
(* Bounds of the model                                                     *)
(* ---------------------------------------------------------------------- *)
\* the last reading of the clock in the runs where it moves
MaxTime == 2
\* document rows the collaborator inserts
MaxDocs == 1
\* the task identifiers 1..MaxTaskInput are the ones complete_task is called with
MaxTaskInput == 3
\* cases created, and task rows stored when a request for a case is taken, in
\* the runs of two server processes
MaxRaceCases == 2
MaxRaceTasks == 6
\* the position in the stage order up to which the cases of a pair are moved
MaxPairStage == 1
\* binary digits kept after the point in the quotient of a float division
FractionBits == 20
\* the position in the stage order up to which a case is moved in the runs
\* where any of its tasks may be completed
MaxBacklogStage == 2
\* readings of the clock in a day: a day is longer than any run made here
TicksPerDay == 3

\* the test case is created again while fewer tasks than this are stored
MaxScriptTasks == 5

\* how many times days pass between the requests on a case
MaxElapses == 2

(* ---------------------------------------------------------------------- *)
(* Values                                                                  *)
(* ---------------------------------------------------------------------- *)
None == "None"
\* a NULL DateTime column
NoTime == -1

\* timedelta(days=days), in readings of the clock
timedelta(days) == days * TicksPerDay

VARIABLES txns, tasks, docs, now, last, sessions

vars == <<txns, tasks, docs, now, last, sessions>>

(* ---------------------------------------------------------------------- *)
(* backend/models/transaction.py, task.py, document.py: enumerations       *)
(* ---------------------------------------------------------------------- *)
TransactionStage ==
    {"OFFER_ACCEPTED", "TITLE_SEARCH", "UNDERWRITING", "CLEAR_TO_CLOSE",
     "FINAL_DOCUMENTS", "FUNDING_SIGNING", "RECORDING_COMPLETE"}

StageValue(stage) ==
    CASE stage = "OFFER_ACCEPTED" -> "offer_accepted"
      [] stage = "TITLE_SEARCH" -> "title_search_ordered"
      [] stage = "UNDERWRITING" -> "lender_underwriting"
      [] stage = "CLEAR_TO_CLOSE" -> "clear_to_close"
      [] stage = "FINAL_DOCUMENTS" -> "final_documents_prepared"
      [] stage = "FUNDING_SIGNING" -> "funding_and_signing"
      [] stage = "RECORDING_COMPLETE" -> "recording_complete"

\* DocumentType members by name; the values are the lower-case strings
\* "proof_of_funds", "insurance_policy" (member INSURANCE), ...
DocumentType ==
    {"PURCHASE_AGREEMENT", "TITLE_REPORT", "PROOF_OF_FUNDS",
     "CLOSING_DISCLOSURE", "DEED", "INSURANCE", "INSPECTION", "APPRAISAL",
     "WIRE_RECEIPT", "ID_DOCUMENT", "OTHER"}

\* DocumentType.<member>.value
DocumentTypeValue(document_type) ==
    CASE document_type = "PURCHASE_AGREEMENT" -> "purchase_agreement"
      [] document_type = "TITLE_REPORT" -> "title_report"
      [] document_type = "PROOF_OF_FUNDS" -> "proof_of_funds"
      [] document_type = "CLOSING_DISCLOSURE" -> "closing_disclosure"
      [] document_type = "DEED" -> "deed"
      [] document_type = "INSURANCE" -> "insurance_policy"
      [] document_type = "INSPECTION" -> "inspection_report"
      [] document_type = "APPRAISAL" -> "appraisal_report"
      [] document_type = "WIRE_RECEIPT" -> "wire_receipt"
      [] document_type = "ID_DOCUMENT" -> "id_document"
      [] document_type = "OTHER" -> "other"

DocumentStatus ==
    {"PENDING_UPLOAD", "UPLOADED", "PROCESSING", "PENDING_REVIEW",
     "APPROVED", "REJECTED", "SUPERSEDED"}

\* EarnestMoneyStatus members, by name
EarnestMoneyStatus == {"PENDING", "DEPOSITED", "CLEARED", "REFUNDED", "APPLIED"}

TaskStatus ==
    {"PENDING", "IN_PROGRESS", "BLOCKED", "COMPLETED", "CANCELLED", "OVERDUE"}

(* ---------------------------------------------------------------------- *)
(* TransactionStateMachine: the stage graph                               *)
(* ---------------------------------------------------------------------- *)
STAGE_ORDER ==
    <<"OFFER_ACCEPTED", "TITLE_SEARCH", "UNDERWRITING", "CLEAR_TO_CLOSE",
      "FINAL_DOCUMENTS", "FUNDING_SIGNING", "RECORDING_COMPLETE">>

STAGE_DURATIONS ==
    [stage \in TransactionStage |->
        CASE stage = "OFFER_ACCEPTED" -> 1
          [] stage = "TITLE_SEARCH" -> 2
          [] stage = "UNDERWRITING" -> 4
          [] stage = "CLEAR_TO_CLOSE" -> 1
          [] stage = "FINAL_DOCUMENTS" -> 2
          [] stage = "FUNDING_SIGNING" -> 2
          [] stage = "RECORDING_COMPLETE" -> 1]

\* STAGE_ORDER.index(stage): 0-based, as in Python
StageIndex(stage) == (CHOOSE i \in 1..Len(STAGE_ORDER) : STAGE_ORDER[i] = stage) - 1

\* STAGE_ORDER[i] with a 0-based index
StageAt(i) == STAGE_ORDER[i + 1]

RECURSIVE SumDurations(_)
\* sum([STAGE_DURATIONS[stage] for stage in STAGE_ORDER[from:]]), from 0-based
SumDurations(from) ==
    IF from >= Len(STAGE_ORDER) THEN 0
    ELSE STAGE_DURATIONS[StageAt(from)] + SumDurations(from + 1)

\* the stage a successful advance enters from current_index
\* the successor is taken two positions on where there is one
NextStageIndex_skipping(current_index) ==
    IF current_index + 2 <= 6 THEN current_index + 2 ELSE current_index + 1

NextStageIndex(current_index) == current_index + 1

IsFinalStage(stage) == stage = "RECORDING_COMPLETE"


(* ---------------------------------------------------------------------- *)
(* RequirementChecker: can_advance_to_next_stage, _check_required_documents*)
(* ---------------------------------------------------------------------- *)
NoReason == [kind |-> "none", titles |-> <<>>, doc_type |-> None]

\* "Transaction is already complete"
CompleteReason == [kind |-> "complete", titles |-> <<>>, doc_type |-> None]

\* f"Blocking tasks incomplete: {', '.join(task_titles)}"
BlockingReason(task_titles) ==
    [kind |-> "blocking", titles |-> task_titles, doc_type |-> None]

\* f"Required document '{doc_type}' not approved"
DocumentReason(doc_type) ==
    [kind |-> "document", titles |-> <<>>, doc_type |-> doc_type]

\* the strings the code lists per stage
stage_document_requirements(stage) ==
    CASE stage = "UNDERWRITING" -> <<"proof_of_funds">>
      [] stage = "CLEAR_TO_CLOSE" -> <<"insurance_policy">>
      [] stage = "FINAL_DOCUMENTS" -> <<"closing_disclosure">>
      [] stage = "RECORDING_COMPLETE" -> <<"deed">>
      [] OTHER -> <<>>

\* db.query(Task).filter(transaction_id == t.id, related_stage ==
\* current_stage.value, is_blocking == True, status != COMPLETED).all()
\* only a task that is waiting or being worked on is counted
BlockingTaskFilter_open_only(k, t) ==
    /\ k.transaction_id = t.id
    /\ k.related_stage = StageValue(t.current_stage)
    /\ k.is_blocking = TRUE
    /\ k.status \in {"PENDING", "IN_PROGRESS"}

\* the filter on Task.related_stage is missing
BlockingTaskFilter_any_stage(k, t) ==
    /\ k.transaction_id = t.id
    /\ k.is_blocking = TRUE
    /\ k.status # "COMPLETED"

\* the filter on Task.transaction_id is missing
BlockingTaskFilter_any_case(k, t) ==
    /\ k.related_stage = StageValue(t.current_stage)
    /\ k.is_blocking = TRUE
    /\ k.status # "COMPLETED"

BlockingTaskFilter(k, t) ==
    /\ k.transaction_id = t.id
    /\ k.related_stage = StageValue(t.current_stage)
    /\ k.is_blocking = TRUE
    /\ k.status # "COMPLETED"

BlockingTasks(taskTable, t) ==
    SelectSeq(taskTable, LAMBDA k : BlockingTaskFilter(k, t))

TaskTitles(ks) == [i \in 1..Len(ks) |-> ks[i].title]

\* db.query(Document).filter(transaction_id == t.id, document_type ==
\* doc_type, status == APPROVED).first() is not None.  document_type is an
\* SQLEnum(DocumentType) column: the stored value is the member name, and
\* the string doc_type is bound as it is, so the comparison is between the
\* member name and the string.
ApprovedDocumentExists(docTable, t, doc_type) ==
    \E i \in 1..Len(docTable) :
        /\ docTable[i].transaction_id = t.id
        /\ docTable[i].document_type = doc_type
        /\ docTable[i].status = "APPROVED"

RECURSIVE CheckDocsFrom(_, _, _, _)
\* the loop over required_docs: the first type without an approved document
CheckDocsFrom(docTable, t, required_docs, i) ==
    IF i > Len(required_docs) THEN <<TRUE, NoReason>>
    ELSE IF ~ApprovedDocumentExists(docTable, t, required_docs[i])
         THEN <<FALSE, DocumentReason(required_docs[i])>>
         ELSE CheckDocsFrom(docTable, t, required_docs, i + 1)

\* no stage asks for a document
check_required_documents_none(docTable, t, stage) == <<TRUE, NoReason>>

check_required_documents(docTable, t, stage) ==
    LET required_docs == stage_document_requirements(stage)
    IN  IF required_docs = <<>> THEN <<TRUE, NoReason>>
        ELSE CheckDocsFrom(docTable, t, required_docs, 1)


\* a case in the first stage is refused until its funds are verified
can_advance_requiring_funds(taskTable, docTable, t) ==
    LET current_stage == t.current_stage
        blocking_tasks == BlockingTasks(taskTable, t)
        required_doc_checks == check_required_documents(docTable, t, current_stage)
    IN  IF IsFinalStage(current_stage) THEN <<FALSE, CompleteReason>>
        ELSE IF current_stage = "OFFER_ACCEPTED" /\ ~t.funds_verified
             THEN <<FALSE, DocumentReason("proof_of_funds")>>
             ELSE IF blocking_tasks # <<>>
                  THEN <<FALSE, BlockingReason(TaskTitles(blocking_tasks))>>
                  ELSE IF ~required_doc_checks[1]
                       THEN <<FALSE, required_doc_checks[2]>>
                       ELSE <<TRUE, NoReason>>

\* the documents are checked before the blocking tasks
can_advance_documents_first(taskTable, docTable, t) ==
    LET current_stage == t.current_stage
        blocking_tasks == BlockingTasks(taskTable, t)
        required_doc_checks == check_required_documents(docTable, t, current_stage)
    IN  IF IsFinalStage(current_stage) THEN <<FALSE, CompleteReason>>
        ELSE IF ~required_doc_checks[1]
             THEN <<FALSE, required_doc_checks[2]>>
             ELSE IF blocking_tasks # <<>>
                  THEN <<FALSE, BlockingReason(TaskTitles(blocking_tasks))>>
                  ELSE <<TRUE, NoReason>>

\* the blocking-task query is left out
can_advance_without_task_check(taskTable, docTable, t) ==
    LET current_stage == t.current_stage
        required_doc_checks == check_required_documents(docTable, t, current_stage)
    IN  IF IsFinalStage(current_stage) THEN <<FALSE, CompleteReason>>
        ELSE IF ~required_doc_checks[1]
             THEN <<FALSE, required_doc_checks[2]>>
             ELSE <<TRUE, NoReason>>

can_advance_to_next_stage(taskTable, docTable, t) ==
    LET current_stage == t.current_stage
        blocking_tasks == BlockingTasks(taskTable, t)
        required_doc_checks == check_required_documents(docTable, t, current_stage)
    IN  IF IsFinalStage(current_stage) THEN <<FALSE, CompleteReason>>
        ELSE IF blocking_tasks # <<>>
             THEN <<FALSE, BlockingReason(TaskTitles(blocking_tasks))>>
             ELSE IF ~required_doc_checks[1]
                  THEN <<FALSE, required_doc_checks[2]>>
                  ELSE <<TRUE, NoReason>>

(* ---------------------------------------------------------------------- *)
(* TaskGenerator: _generate_stage_tasks, _get_party_by_role                *)
(* ---------------------------------------------------------------------- *)
Tpl(title, role, blocking) ==
    [title |-> title, assigned_role |-> role, is_blocking |-> blocking]

stage_tasks(stage) ==
    CASE stage = "OFFER_ACCEPTED" ->
            <<Tpl("Deposit earnest money", "buyer", TRUE),
              Tpl("Upload proof of funds", "buyer", TRUE),
              Tpl("Open escrow account", "title_officer", TRUE)>>
      [] stage = "TITLE_SEARCH" ->
            <<Tpl("Order title search", "title_officer", TRUE),
              Tpl("Review title report", "title_officer", TRUE)>>
      [] stage = "UNDERWRITING" ->
            <<Tpl("Submit loan application", "buyer", TRUE),
              Tpl("Schedule home inspection", "buyer", FALSE),
              Tpl("Order appraisal", "loan_officer", TRUE),
              Tpl("Verify employment", "loan_officer", TRUE)>>
      [] stage = "CLEAR_TO_CLOSE" ->
            <<Tpl("Obtain clear to close", "loan_officer", TRUE),
              Tpl("Upload insurance policy", "buyer", TRUE)>>
      [] stage = "FINAL_DOCUMENTS" ->
            <<Tpl("Prepare closing disclosure", "title_officer", TRUE),
              Tpl("Review closing disclosure", "buyer", TRUE),
              Tpl("Prepare deed", "title_officer", TRUE)>>
      [] stage = "FUNDING_SIGNING" ->
            <<Tpl("Wire down payment", "buyer", TRUE),
              Tpl("Sign closing documents", "buyer", TRUE),
              Tpl("Lender funds loan", "loan_officer", TRUE)>>
      [] stage = "RECORDING_COMPLETE" ->
            <<Tpl("Record deed", "title_officer", TRUE),
              Tpl("Disburse funds", "title_officer", TRUE)>>

\* two roles of the mapping are looked up in each other's column
get_party_by_role_crossed(t, role) ==
    CASE role = "buyer" -> t.buyer_id
      [] role = "seller" -> t.seller_id
      [] role = "buyer_agent" -> t.buyer_agent_id
      [] role = "seller_agent" -> t.seller_agent_id
      [] role = "loan_officer" -> t.title_officer_id
      [] role = "title_officer" -> t.loan_officer_id
      [] OTHER -> None

get_party_by_role(t, role) ==
    CASE role = "buyer" -> t.buyer_id
      [] role = "seller" -> t.seller_id
      [] role = "buyer_agent" -> t.buyer_agent_id
      [] role = "seller_agent" -> t.seller_agent_id
      [] role = "loan_officer" -> t.loan_officer_id
      [] role = "title_officer" -> t.title_officer_id
      [] OTHER -> None

\* the Task rows one call adds; task_count is read once before the loop and
\* the identifier is TASK-<year>-<task_count + i + 1> (i 0-based), here the
\* number alone
\* the decimal digits of n, the first one first
RECURSIVE Digits(_)
Digits(n) == IF n < 10 THEN <<n>> ELSE Append(Digits(n \div 10), n % 10)

\* f"{n:04d}": the digits of n with zeros in front up to four of them
ZeroPad4(n) ==
    [i \in 1..(4 - Len(Digits(n))) |-> 0] \o Digits(n)

\* f"TASK-{year}-{n:04d}" for the number n a task row carries here
TaskIdText(year, n) == <<"TASK", year>> \o ZeroPad4(n)

\* the rows of a call are numbered from one, whatever is stored
generate_stage_tasks_numbered_per_call(t, stage, task_count, clock) ==
    LET tasks_for_stage == stage_tasks(stage)
    IN  [j \in 1..Len(tasks_for_stage) |->
            [id |-> (j - 1) + 1,
             transaction_id |-> t.id,
             title |-> tasks_for_stage[j].title,
             assigned_to |-> get_party_by_role(t, tasks_for_stage[j].assigned_role),
             status |-> "PENDING",
             due_date |-> clock + timedelta(STAGE_DURATIONS[stage]),
             is_blocking |-> tasks_for_stage[j].is_blocking,
             related_stage |-> StageValue(stage),
             completed_at |-> NoTime,
             completion_notes |-> None]]

\* the identifier is numbered within the case, not on the count of all tasks
generate_stage_tasks_numbered_per_case(t, stage, task_count, clock) ==
    LET tasks_for_stage == stage_tasks(stage)
    IN  [j \in 1..Len(tasks_for_stage) |->
            [id |-> 100 * t.id + task_count + (j - 1) + 1,
             transaction_id |-> t.id,
             title |-> tasks_for_stage[j].title,
             assigned_to |-> get_party_by_role(t, tasks_for_stage[j].assigned_role),
             status |-> "PENDING",
             due_date |-> clock + timedelta(STAGE_DURATIONS[stage]),
             is_blocking |-> tasks_for_stage[j].is_blocking,
             related_stage |-> StageValue(stage),
             completed_at |-> NoTime,
             completion_notes |-> None]]

generate_stage_tasks(t, stage, task_count, clock) ==
    LET tasks_for_stage == stage_tasks(stage)
    IN  [j \in 1..Len(tasks_for_stage) |->
            [id |-> task_count + (j - 1) + 1,
             transaction_id |-> t.id,
             title |-> tasks_for_stage[j].title,
             assigned_to |-> get_party_by_role(t, tasks_for_stage[j].assigned_role),
             status |-> "PENDING",
             due_date |-> clock + timedelta(STAGE_DURATIONS[stage]),
             is_blocking |-> tasks_for_stage[j].is_blocking,
             related_stage |-> StageValue(stage),
             completed_at |-> NoTime,
             completion_notes |-> None]]


(* ---------------------------------------------------------------------- *)
(* The session: what a commit writes                                       *)
(* ---------------------------------------------------------------------- *)
\* session.commit() followed by session.refresh(obj): the UPDATE carries the
\* attributes that were assigned on the loaded object, and the refresh
\* reloads every column.  stage_history is Column(JSON, default=list), a
\* plain JSON column: list.append on the loaded value is no assignment.
\* (The branch "if stage_history is None: stage_history = []", which is an
\* assignment, is never taken: create_transaction stores a list in every row.)
Commit(row, obj, assigned) ==
    [a \in DOMAIN row |-> IF a \in assigned THEN obj[a] ELSE row[a]]

\* notes or ""
NotesOrEmpty(notes) == IF notes = None THEN "" ELSE notes

(* ---------------------------------------------------------------------- *)
(* TransactionStateMachine: read-only views                                *)
(* ---------------------------------------------------------------------- *)

\* current_index / len(STAGE_ORDER): a float, the binary fraction nearest to
\* the quotient; it is held here as a whole number of 2^-FractionBits
FloatQuotient(a, b) == (2 * a * 2^FractionBits + b) \div (2 * b)

\* int(x * 100) of the float x held as above: the digits after the point
\* are cut off
IntOfTimes100(x) == (x * 100) \div 2^FractionBits

\* the stage the case is in counts as done
get_stage_progress_counting_current(t) ==
    LET current_index == StageIndex(t.current_stage)
    IN  [current_stage |-> StageValue(t.current_stage),
         current_stage_index |-> current_index,
         total_stages |-> Len(STAGE_ORDER),
         percent_complete |->
             IntOfTimes100(FloatQuotient(current_index + 1, Len(STAGE_ORDER)))]

\* the head of the dictionary get_stage_progress returns (the list of the
\* stages with their dates is left out)
get_stage_progress(t) ==
    LET current_index == StageIndex(t.current_stage)
    IN  [current_stage |-> StageValue(t.current_stage),
         current_stage_index |-> current_index,
         total_stages |-> Len(STAGE_ORDER),
         percent_complete |->
             IntOfTimes100(FloatQuotient(current_index, Len(STAGE_ORDER)))]

\* history_entry.get(key): the value, or the null of its kind
HistoryGet(history_entry, key, null) ==
    IF key \in DOMAIN history_entry THEN history_entry[key] ELSE null

RECURSIVE FirstEntryOfStage(_, _, _)
\* the inner loop with its break: the position of the first entry whose
\* "stage" is the value, 0 when the loop ends without one
FirstEntryOfStage(stage_history, value, k) ==
    IF k > Len(stage_history) THEN 0
    ELSE IF HistoryGet(stage_history[k], "stage", None) = value THEN k
    ELSE FirstEntryOfStage(stage_history, value, k + 1)

\* stage_info of the stage at index i of STAGE_ORDER
stage_info(t, i) ==
    LET current_index == StageIndex(t.current_stage)
        stage == StageAt(i)
        k == FirstEntryOfStage(t.stage_history, StageValue(stage), 1)
    IN  [stage |-> StageValue(stage),
         order |-> i,
         status |-> IF i < current_index THEN "complete"
                    ELSE IF i = current_index THEN "current"
                    ELSE "pending",
         entered_at |-> IF k = 0 THEN NoTime
                        ELSE HistoryGet(t.stage_history[k], "entered_at",
                                        NoTime),
         notes |-> IF k = 0 THEN None
                   ELSE HistoryGet(t.stage_history[k], "notes", None)]

\* progress["stages"] of the dictionary get_stage_progress returns
get_stage_progress_stages(t) ==
    [n \in 1..Len(STAGE_ORDER) |-> stage_info(t, n - 1)]

\* the current stage is left out of the sum
estimate_days_to_close_after_current(t) ==
    SumDurations(StageIndex(t.current_stage) + 1)

\* sum of STAGE_DURATIONS over STAGE_ORDER[current_index:]
estimate_days_to_close(t) == SumDurations(StageIndex(t.current_stage))

(* ---------------------------------------------------------------------- *)
(* Inputs                                                                  *)
(* ---------------------------------------------------------------------- *)
\* role assignments of a TransactionCreate request
Seeds ==
    {[buyer_id |-> "PARTY-001", title_officer_id |-> "PARTY-003"]}

NotesInputs == {None, "note"}

\* deposit.deposited_at: absent, or a given time
DepositedAtInputs == {NoTime, 0}

DocTypeInputs == {"PROOF_OF_FUNDS"}

DocStatusInputs == {"APPROVED"}

\* the case a document row names (no foreign key: any identifier)
DocOwnerInputs == {1, 2}

TaskIdInputs == 1..MaxTaskInput

\* the task completed in the runs where the clock moves
ClockTaskIdInputs == {1}

CompletionNotesInputs == {"done"}
\* the identifiers create_transaction gives the two cases of a pair
PairCaseIds == {1, 2}

\* FundsVerification.verified_by, a party id or a user name
VerifiedByInputs == {"system", "PARTY-003"}

(* ---------------------------------------------------------------------- *)
(* Initial state: empty tables                                             *)
(* ---------------------------------------------------------------------- *)
NoCall ==
    [op |-> "none", txn |-> 0, task |-> 0, force |-> FALSE,
     result |-> "none", reason |-> NoReason]

Call(op, txn, task, force, result, reason) ==
    [op |-> op, txn |-> txn, task |-> task, force |-> force,
     result |-> result, reason |-> reason]

\* the server processes that share the database
Workers == {1, 2}

\* the session of a process that is between two requests
IdleSession ==
    [pc |-> "idle", op |-> "none", txn |-> 0, force |-> FALSE,
     base |-> <<>>, obj |-> <<>>, pending |-> <<>>]

Init ==
    /\ txns = <<>>
    /\ tasks = <<>>
    /\ docs = <<>>
    /\ now = 0
    /\ last = NoCall
    /\ sessions = [w \in Workers |-> IdleSession]

\* db.query(Transaction).filter(Transaction.id == id).first()
TxnExists(id) == id \in 1..Len(txns)

(* ---------------------------------------------------------------------- *)
(* POST /transactions                                                      *)
(* ---------------------------------------------------------------------- *)
\* the entry is written with the member's name instead of its value
CreationHistory_memberName(clock) ==
    <<[stage |-> "OFFER_ACCEPTED",
       entered_at |-> clock,
       notes |-> "Transaction created"]>>

\* stage_history=[{...}] of the constructor call
CreationHistory(clock) ==
    <<[stage |-> StageValue("OFFER_ACCEPTED"),
       entered_at |-> clock,
       notes |-> "Transaction created"]>>

\* Transaction(...): every datetime.utcnow() in it is a reading of its own;
\* clock is the one taken for stage_started_at and later the one taken for
\* created_at, estimated_closing_date and the history entry after it
NewTransactionRead(txn_id, seed, clock, later) ==
    [id |-> txn_id,
     earnest_money_status |-> "PENDING",
     earnest_money_deposited_at |-> NoTime,
     funds_verified |-> FALSE,
     funds_verified_at |-> NoTime,
     funds_verified_by |-> None,
     current_stage |-> "OFFER_ACCEPTED",
     stage_started_at |-> clock,
     created_at |-> later,
     estimated_closing_date |-> later + timedelta(13),
     actual_closing_date |-> NoTime,
     buyer_id |-> seed.buyer_id,
     seller_id |-> None,
     buyer_agent_id |-> None,
     seller_agent_id |-> None,
     loan_officer_id |-> None,
     title_officer_id |-> seed.title_officer_id,
     stage_history |-> CreationHistory(later)]

\* the object when the clock reads the same throughout the call
NewTransaction(txn_id, seed, clock) ==
    NewTransactionRead(txn_id, seed, clock, clock)

\* the row is committed and no task is generated
create_transaction_without_tasks(seed) ==
    /\ LET txn_count == Len(txns)
           transaction == NewTransaction(txn_count + 1, seed, now)
       IN  /\ txns' = Append(txns, transaction)
           /\ last' = Call("create_transaction", txn_count + 1, 0, FALSE,
                           "ok", NoReason)
    /\ UNCHANGED <<tasks, docs, now>>

create_transaction(seed) ==
    /\ LET txn_count == Len(txns)
           transaction == NewTransaction(txn_count + 1, seed, now)
       IN  /\ txns' = Append(txns, transaction)
           /\ tasks' = tasks \o generate_stage_tasks(transaction,
                                   "OFFER_ACCEPTED", Len(tasks), now)
           /\ last' = Call("create_transaction", txn_count + 1, 0, FALSE,
                           "ok", NoReason)
    /\ UNCHANGED <<docs, now>>

(* ---------------------------------------------------------------------- *)
(* TransactionStateMachine.advance_stage                                   *)
(* ---------------------------------------------------------------------- *)
\* create_transaction while the clock moves on during the call to later
create_transaction_reading(seed, later) ==
    /\ LET txn_count == Len(txns)
           transaction == NewTransactionRead(txn_count + 1, seed, now, later)
       IN  /\ txns' = Append(txns, transaction)
           /\ tasks' = tasks \o generate_stage_tasks(transaction,
                                   "OFFER_ACCEPTED", Len(tasks), later)
           /\ last' = Call("create_transaction", txn_count + 1, 0, FALSE,
                           "ok", NoReason)
    /\ now' = later
    /\ UNCHANGED docs

\* the requirement check is made whatever force is
AdvanceException_force_ignored(taskTable, docTable, t, force) ==
    IF IsFinalStage(t.current_stage) THEN "StageTransitionError"
    ELSE IF ~can_advance_to_next_stage(taskTable, docTable, t)[1]
         THEN "StageRequirementError"
         ELSE "none"

\* the exception advance_stage raises, "none" when it goes through
AdvanceException(taskTable, docTable, t, force) ==
    IF IsFinalStage(t.current_stage) THEN "StageTransitionError"
    ELSE IF ~force /\ ~can_advance_to_next_stage(taskTable, docTable, t)[1]
         THEN "StageRequirementError"
         ELSE "none"

\* f"Cannot advance stage: {reason}" / "Transaction is already complete"
AdvanceReason(taskTable, docTable, t, force) ==
    IF IsFinalStage(t.current_stage) THEN CompleteReason
    ELSE IF ~force /\ ~can_advance_to_next_stage(taskTable, docTable, t)[1]
         THEN can_advance_to_next_stage(taskTable, docTable, t)[2]
         ELSE NoReason

\* the loaded object after lines 221-252: every datetime.utcnow() is a
\* reading of its own; clock is the one taken for the entry and for
\* stage_started_at, later the one taken for the closing dates after it
AdvancedObjectRead(t, notes, force, clock, later) ==
    LET current_index == StageIndex(t.current_stage)
        next_stage == StageAt(NextStageIndex(current_index))
        stage_entry == [stage |-> StageValue(next_stage),
                        entered_at |-> clock,
                        notes |-> NotesOrEmpty(notes),
                        force_advanced |-> force]
    IN  [t EXCEPT !.stage_history = Append(@, stage_entry),
                  !.current_stage = next_stage,
                  !.stage_started_at = clock,
                  !.estimated_closing_date =
                      later + timedelta(SumDurations(current_index + 1)),
                  !.actual_closing_date =
                      IF IsFinalStage(next_stage) THEN later ELSE @]

\* the object when the clock reads the same throughout the call
AdvancedObject(t, notes, force, clock) ==
    AdvancedObjectRead(t, notes, force, clock, clock)

\* actual_closing_date is never assigned
AdvanceAssigned_without_closing(t) ==
    {"current_stage", "stage_started_at", "estimated_closing_date"}

\* the attributes advance_stage assigns (stage_history is appended in place)
AdvanceAssigned(t) ==
    {"current_stage", "stage_started_at", "estimated_closing_date"}
    \cup (IF IsFinalStage(StageAt(NextStageIndex(StageIndex(t.current_stage))))
          THEN {"actual_closing_date"} ELSE {})

\* the case is changed and committed before the requirement check raises
AdvanceEffect_commit_before_check(id, notes, force) ==
    LET t == txns[id]
    IN  IF IsFinalStage(t.current_stage)
        THEN UNCHANGED <<txns, tasks>>
        ELSE LET obj == AdvancedObject(t, notes, force, now)
             IN  /\ txns' = [txns EXCEPT ![id] = Commit(t, obj, AdvanceAssigned(t))]
                 /\ tasks' = tasks \o generate_stage_tasks(obj, obj.current_stage,
                                         Len(tasks), now)

\* no check for the last stage, and the successor is looked up modulo the
\* length of STAGE_ORDER
AdvanceEffect_wrapping(id, notes, force) ==
    LET t == txns[id]
        exc == AdvanceException(tasks, docs, t, force)
    IN  IF exc = "StageRequirementError"
        THEN UNCHANGED <<txns, tasks>>
        ELSE /\ txns' = [txns EXCEPT ![id].current_stage =
                            StageAt((StageIndex(t.current_stage) + 1) % 7),
                                     ![id].stage_started_at = now]
             /\ UNCHANGED tasks

\* the blocking tasks of the stage that is left are closed on the way out
AdvanceEffect_closing_tasks(id, notes, force) ==
    LET t == txns[id]
        exc == AdvanceException(tasks, docs, t, force)
    IN  IF exc # "none"
        THEN UNCHANGED <<txns, tasks>>
        ELSE LET obj == AdvancedObject(t, notes, force, now)
                 closed == [k \in DOMAIN tasks |->
                              IF BlockingTaskFilter(tasks[k], t)
                              THEN [tasks[k] EXCEPT !.status = "COMPLETED"]
                              ELSE tasks[k]]
             IN  /\ txns' = [txns EXCEPT ![id] = Commit(t, obj, AdvanceAssigned(t))]
                 /\ tasks' = closed \o generate_stage_tasks(obj, obj.current_stage,
                                          Len(tasks), now)

\* the tasks of the stage that is left are generated again with those of
\* the stage that is entered
AdvanceEffect_regenerating(id, notes, force) ==
    LET t == txns[id]
        exc == AdvanceException(tasks, docs, t, force)
    IN  IF exc # "none"
        THEN UNCHANGED <<txns, tasks>>
        ELSE LET obj == AdvancedObject(t, notes, force, now)
                 again == generate_stage_tasks(t, t.current_stage, Len(tasks), now)
             IN  /\ txns' = [txns EXCEPT ![id] = Commit(t, obj, AdvanceAssigned(t))]
                 /\ tasks' = (tasks \o again)
                              \o generate_stage_tasks(obj, obj.current_stage,
                                      Len(tasks) + Len(again), now)

\* the effect of one advance_stage call on the tables
AdvanceEffect(id, notes, force) ==
    LET t == txns[id]
        exc == AdvanceException(tasks, docs, t, force)
    IN  IF exc # "none"
        THEN UNCHANGED <<txns, tasks>>
        ELSE LET obj == AdvancedObject(t, notes, force, now)
             IN  /\ txns' = [txns EXCEPT ![id] = Commit(t, obj, AdvanceAssigned(t))]
                 /\ tasks' = tasks \o generate_stage_tasks(obj, obj.current_stage,
                                         Len(tasks), now)

\* a direct call, as scripts/test_state_machine.py makes it
advance_stage(id, notes, force) ==
    /\ TxnExists(id)
    /\ AdvanceEffect(id, notes, force)
    /\ last' = Call("advance_stage", id, 0, force,
                    IF AdvanceException(tasks, docs, txns[id], force) = "none"
                    THEN "ok" ELSE AdvanceException(tasks, docs, txns[id], force),
                    AdvanceReason(tasks, docs, txns[id], force))
    /\ UNCHANGED <<docs, now>>

\* advance_stage while the clock moves on during the call to later
advance_stage_reading(id, force, later) ==
    /\ TxnExists(id)
    /\ LET t == txns[id]
           exc == AdvanceException(tasks, docs, t, force)
       IN  /\ IF exc # "none"
              THEN UNCHANGED <<txns, tasks>>
              ELSE LET obj == AdvancedObjectRead(t, None, force, now, later)
                   IN  /\ txns' = [txns EXCEPT ![id] =
                                      Commit(t, obj, AdvanceAssigned(t))]
                       /\ tasks' = tasks \o generate_stage_tasks(obj,
                                        obj.current_stage, Len(tasks), later)
           /\ last' = Call("advance_stage", id, 0, force,
                           IF exc = "none" THEN "ok" ELSE exc,
                           AdvanceReason(tasks, docs, t, force))
    /\ now' = later
    /\ UNCHANGED docs

\* the check marks the blocking tasks it found as BLOCKED and commits
can_advance_marking(id) ==
    /\ TxnExists(id)
    /\ tasks' = [i \in 1..Len(tasks) |->
                    IF BlockingTaskFilter(tasks[i], txns[id])
                    THEN [tasks[i] EXCEPT !.status = "BLOCKED"]
                    ELSE tasks[i]]
    /\ last' = Call("can_advance", id, 0, FALSE,
                    IF can_advance_to_next_stage(tasks, docs, txns[id])[1]
                    THEN "true" ELSE "false",
                    can_advance_to_next_stage(tasks, docs, txns[id])[2])
    /\ UNCHANGED <<txns, docs, now>>

\* a direct call of can_advance_to_next_stage
can_advance(id) ==
    /\ TxnExists(id)
    /\ last' = Call("can_advance", id, 0, FALSE,
                    IF can_advance_to_next_stage(tasks, docs, txns[id])[1]
                    THEN "true" ELSE "false",
                    can_advance_to_next_stage(tasks, docs, txns[id])[2])
    /\ UNCHANGED <<txns, tasks, docs, now>>


(* ---------------------------------------------------------------------- *)
(* POST /transactions/{id}/advance-stage                                   *)
(* ---------------------------------------------------------------------- *)
\* the handler: 404 without the row (the guard), 400 when its own check or
\* advance_stage refuses, else the effect of advance_stage
advance_transaction_stage(id, notes, force) ==
    /\ TxnExists(id)
    /\ IF ~force /\ ~can_advance_to_next_stage(tasks, docs, txns[id])[1]
       THEN /\ last' = Call("advance_transaction_stage", id, 0, force,
                            "HTTP_400",
                            can_advance_to_next_stage(tasks, docs, txns[id])[2])
            /\ UNCHANGED <<txns, tasks>>
       ELSE /\ AdvanceEffect(id, notes, force)
            /\ last' = Call("advance_transaction_stage", id, 0, force,
                            IF AdvanceException(tasks, docs, txns[id], force) = "none"
                            THEN "ok" ELSE "HTTP_400",
                            AdvanceReason(tasks, docs, txns[id], force))
    /\ UNCHANGED <<docs, now>>

(* ---------------------------------------------------------------------- *)
(* POST /transactions/{id}/deposit-earnest-money and /verify-funds         *)
(* ---------------------------------------------------------------------- *)
\* the loaded object after lines 301-319; deposited_at = None is "now"
DepositedObject(t, deposited_at, amount, notes, clock) ==
    [t EXCEPT !.earnest_money_status = "DEPOSITED",
              !.earnest_money_deposited_at =
                  IF deposited_at = NoTime THEN clock ELSE deposited_at,
              !.stage_history = Append(@, [event |-> "earnest_money_deposited",
                                           timestamp |-> clock,
                                           amount |-> amount,
                                           notes |-> NotesOrEmpty(notes)])]

DepositAssigned == {"earnest_money_status", "earnest_money_deposited_at"}

deposit_earnest_money(id, deposited_at, notes) ==
    /\ TxnExists(id)
    /\ txns' = [txns EXCEPT ![id] =
                  Commit(@, DepositedObject(@, deposited_at, 9000, notes, now),
                         DepositAssigned)]
    /\ last' = Call("deposit_earnest_money", id, 0, FALSE, "ok", NoReason)
    /\ UNCHANGED <<tasks, docs, now>>

VerifiedObject_toggling(t, verified_by, method, notes, clock) ==
    [t EXCEPT !.funds_verified = ~t.funds_verified,
              !.funds_verified_at = clock,
              !.funds_verified_by = verified_by,
              !.stage_history = Append(@, [event |-> "funds_verified",
                                           timestamp |-> clock,
                                           verified_by |-> verified_by,
                                           method |-> method,
                                           notes |-> NotesOrEmpty(notes)])]

\* the loaded object after lines 363-378
VerifiedObject(t, verified_by, method, notes, clock) ==
    [t EXCEPT !.funds_verified = TRUE,
              !.funds_verified_at = clock,
              !.funds_verified_by = verified_by,
              !.stage_history = Append(@, [event |-> "funds_verified",
                                           timestamp |-> clock,
                                           verified_by |-> verified_by,
                                           method |-> method,
                                           notes |-> NotesOrEmpty(notes)])]

VerifyAssigned == {"funds_verified", "funds_verified_at", "funds_verified_by"}

\* the handler with the request's required verified_by field (line 82)
verify_funds_by(id, verified_by, notes) ==
    /\ TxnExists(id)
    /\ txns' = [txns EXCEPT ![id] =
                  Commit(@, VerifiedObject(@, verified_by, None, notes, now),
                         VerifyAssigned)]
    /\ last' = Call("verify_funds", id, 0, FALSE, "ok", NoReason)
    /\ UNCHANGED <<tasks, docs, now>>

\* the same request sent by the one verifier "system"
verify_funds(id, notes) == verify_funds_by(id, "system", notes)

(* ---------------------------------------------------------------------- *)
(* POST /tasks/{task_id}/complete                                          *)
(* ---------------------------------------------------------------------- *)
\* db.query(Task).filter(Task.id == task_id).first(): position of the row,
\* 0 without one (the handler answers 404)
TaskRow(task_id) ==
    IF \E i \in 1..Len(tasks) : tasks[i].id = task_id
    THEN CHOOSE i \in 1..Len(tasks) :
            /\ tasks[i].id = task_id
            /\ \A j \in 1..(i - 1) : tasks[j].id # task_id
    ELSE 0

CompletedTask(k, completion_notes, clock) ==
    [k EXCEPT !.status = "COMPLETED",
              !.completed_at = clock,
              !.completion_notes = completion_notes]

\* without the early return for a task that is completed already
complete_task_rewriting(task_id, completion_notes) ==
    /\ TaskRow(task_id) # 0
    /\ LET i == TaskRow(task_id)
       IN  /\ tasks' = [tasks EXCEPT ![i] =
                            CompletedTask(@, completion_notes, now)]
           /\ last' = Call("complete_task", tasks[i].transaction_id,
                           task_id, FALSE, "ok", NoReason)
    /\ UNCHANGED <<txns, docs, now>>

complete_task(task_id, completion_notes) ==
    /\ TaskRow(task_id) # 0
    /\ LET i == TaskRow(task_id)
       IN  IF tasks[i].status = "COMPLETED"
           THEN /\ last' = Call("complete_task", tasks[i].transaction_id,
                                task_id, FALSE, "already_completed", NoReason)
                /\ UNCHANGED tasks
           ELSE /\ tasks' = [tasks EXCEPT ![i] =
                                CompletedTask(@, completion_notes, now)]
                /\ last' = Call("complete_task", tasks[i].transaction_id,
                                task_id, FALSE, "ok", NoReason)
    /\ UNCHANGED <<txns, docs, now>>

(* ---------------------------------------------------------------------- *)
(* The document collaborator                                               *)
(* ---------------------------------------------------------------------- *)
\* a Document row is inserted; status defaults to UPLOADED
upload_document(id, document_type) ==
    /\ docs' = Append(docs, [transaction_id |-> id,
                             document_type |-> document_type,
                             status |-> "UPLOADED"])
    /\ last' = Call("upload_document", id, 0, FALSE, "ok", NoReason)
    /\ UNCHANGED <<txns, tasks, now>>

\* the review outcome is written to Document.status
review_document(d, status) ==
    /\ d \in 1..Len(docs)
    /\ docs[d].status # status
    /\ docs' = [docs EXCEPT ![d].status = status]
    /\ last' = Call("review_document", docs[d].transaction_id, 0, FALSE,
                    "ok", NoReason)
    /\ UNCHANGED <<txns, tasks, now>>

(* ---------------------------------------------------------------------- *)
(* The task collaborator                                                   *)
(* ---------------------------------------------------------------------- *)
\* the statuses a task that is not completed is put in
TaskStatusInputs == {"IN_PROGRESS", "BLOCKED", "CANCELLED", "OVERDUE"}

\* Task.status of a task that is not completed is written; nothing else of
\* the row is
set_task_status(k, status) ==
    /\ k \in 1..Len(tasks)
    /\ tasks[k].status # "COMPLETED"
    /\ tasks[k].status # status
    /\ tasks' = [tasks EXCEPT ![k].status = status]
    /\ last' = Call("set_task_status", tasks[k].transaction_id, tasks[k].id,
                    FALSE, "ok", NoReason)
    /\ UNCHANGED <<txns, docs, now>>

(* ---------------------------------------------------------------------- *)
(* The clock                                                               *)
(* ---------------------------------------------------------------------- *)
\* datetime.utcnow() reads one unit later
Tick ==
    /\ now' = now + 1
    /\ UNCHANGED <<txns, tasks, docs, last>>

\* Task.is_overdue() when datetime.utcnow() reads clock
is_overdue(k, clock) ==
    IF k.status = "COMPLETED" THEN FALSE
    ELSE IF k.due_date # NoTime /\ k.due_date < clock THEN TRUE
    ELSE FALSE

\* the days that pass between two requests
ElapseDaysInputs == {5}

\* a timer that writes the OVERDUE status when the due date has passed
Elapse_marking_overdue(days) ==
    /\ now' = now + timedelta(days)
    /\ tasks' = [k \in DOMAIN tasks |->
                    IF is_overdue(tasks[k], now')
                    THEN [tasks[k] EXCEPT !.status = "OVERDUE"]
                    ELSE tasks[k]]
    /\ UNCHANGED <<txns, docs, last>>

\* days pass with no request made: datetime.utcnow() reads that much later
Elapse(days) ==
    /\ now' = now + timedelta(days)
    /\ UNCHANGED <<txns, tasks, docs, last>>

(* ---------------------------------------------------------------------- *)
(* Specification                                                           *)
(* ---------------------------------------------------------------------- *)
(* ---------------------------------------------------------------------- *)
(* The handlers statement by statement, as two server processes on one     *)
(* database run them.  A handler is an async def with no await, so one     *)
(* process runs its requests one at a time; two processes meet only in the *)
(* database.  Each step is one query or one commit; a session keeps the    *)
(* row as it was read (base), the object in memory (obj) and the task rows *)
(* added but not yet flushed (pending: autoflush is off).                  *)
(* ---------------------------------------------------------------------- *)
StoredTaskIds == {tasks[k].id : k \in DOMAIN tasks}

PendingIds(w) ==
    {sessions[w].pending[i].id : i \in DOMAIN sessions[w].pending}

\* the request of a session ends: its result is returned
EndRequest(w, result, reason) ==
    /\ sessions' = [sessions EXCEPT ![w] = IdleSession]
    /\ last' = Call(sessions[w].op, sessions[w].txn, 0, sessions[w].force,
                    result, reason)

\* create_transaction up to the Transaction(...) object: the count is read
BeginCreate(w, seed) ==
    /\ sessions[w].pc = "idle"
    /\ Len(txns) < MaxRaceCases
    /\ LET txn_count == Len(txns)
           transaction == NewTransaction(txn_count + 1, seed, now)
       IN  sessions' = [sessions EXCEPT ![w] =
               [IdleSession EXCEPT !.pc = "counted",
                                   !.op = "create_transaction",
                                   !.txn = txn_count + 1,
                                   !.obj = <<transaction>>]]
    /\ UNCHANGED <<txns, tasks, docs, now, last>>

\* db.add(transaction); db.commit(); db.refresh(transaction)
CommitCreate(w) ==
    /\ sessions[w].pc = "counted"
    /\ IF TxnExists(sessions[w].txn)
       THEN /\ EndRequest(w, "IntegrityError", NoReason)
            /\ UNCHANGED <<txns, tasks, docs, now>>
       ELSE /\ txns' = Append(txns, sessions[w].obj[1])
            /\ sessions' = [sessions EXCEPT ![w].pc = "created"]
            /\ UNCHANGED <<tasks, docs, now, last>>

\* state_machine._generate_stage_tasks(transaction, OFFER_ACCEPTED)
GenerateCreate(w) ==
    /\ sessions[w].pc = "created"
    /\ sessions' = [sessions EXCEPT
           ![w].pc = "generated",
           ![w].pending = generate_stage_tasks(sessions[w].obj[1],
                              "OFFER_ACCEPTED", Len(tasks), now)]
    /\ UNCHANGED <<txns, tasks, docs, now, last>>

\* the second db.commit() of create_transaction
CommitCreateTasks(w) ==
    /\ sessions[w].pc = "generated"
    /\ sessions[w].op = "create_transaction"
    /\ IF PendingIds(w) \cap StoredTaskIds # {}
       THEN /\ EndRequest(w, "IntegrityError", NoReason)
            /\ UNCHANGED <<txns, tasks, docs, now>>
       ELSE /\ tasks' = tasks \o sessions[w].pending
            /\ EndRequest(w, "ok", NoReason)
            /\ UNCHANGED <<txns, docs, now>>

\* the caller of advance_stage loads the case
LoadAdvance(w, id, force) ==
    /\ sessions[w].pc = "idle"
    /\ TxnExists(id)
    /\ Len(tasks) < MaxRaceTasks
    /\ sessions' = [sessions EXCEPT ![w] =
           [IdleSession EXCEPT !.pc = "loaded",
                               !.op = "advance_stage",
                               !.txn = id,
                               !.force = force,
                               !.base = <<txns[id]>>,
                               !.obj = <<txns[id]>>]]
    /\ UNCHANGED <<txns, tasks, docs, now, last>>

\* advance_stage up to the requirement check, on the object as loaded and
\* the tasks and documents as stored now
CheckAdvance(w) ==
    /\ sessions[w].pc = "loaded"
    /\ LET t == sessions[w].obj[1]
           exc == AdvanceException(tasks, docs, t, sessions[w].force)
       IN  IF exc # "none"
           THEN /\ EndRequest(w, exc, AdvanceReason(tasks, docs, t,
                                                    sessions[w].force))
           ELSE /\ sessions' = [sessions EXCEPT ![w].pc = "checked"]
                /\ UNCHANGED last
    /\ UNCHANGED <<txns, tasks, docs, now>>

\* advance_stage from the stage entry to _generate_stage_tasks: the object
\* is changed in memory, the count of tasks is read, the rows are added
GenerateAdvance(w) ==
    /\ sessions[w].pc = "checked"
    /\ LET obj == AdvancedObject(sessions[w].obj[1], None,
                                 sessions[w].force, now)
       IN  sessions' = [sessions EXCEPT
               ![w].pc = "generated",
               ![w].obj = <<obj>>,
               ![w].pending = generate_stage_tasks(obj, obj.current_stage,
                                  Len(tasks), now)]
    /\ UNCHANGED <<txns, tasks, docs, now, last>>

\* the commit skips the rows of a stage the stored case is already in
CommitAdvance_once_per_stage(w) ==
    /\ sessions[w].pc = "generated"
    /\ sessions[w].op = "advance_stage"
    /\ LET id == sessions[w].txn
           obj == sessions[w].obj[1]
       IN  /\ txns' = [txns EXCEPT ![id] =
                   Commit(txns[id], obj, AdvanceAssigned(sessions[w].base[1]))]
           /\ tasks' = IF txns[id].current_stage = obj.current_stage
                       THEN tasks ELSE tasks \o sessions[w].pending
           /\ EndRequest(w, "ok", NoReason)
           /\ UNCHANGED <<docs, now>>

\* self.db.commit() of advance_stage: the UPDATE of the assigned columns
\* and the INSERT of the added rows, in one database transaction; a row
\* whose primary key is stored already fails it
CommitAdvance(w) ==
    /\ sessions[w].pc = "generated"
    /\ sessions[w].op = "advance_stage"
    /\ LET id == sessions[w].txn
           obj == sessions[w].obj[1]
       IN  IF PendingIds(w) \cap StoredTaskIds # {}
           THEN /\ EndRequest(w, "IntegrityError", NoReason)
                /\ UNCHANGED <<txns, tasks, docs, now>>
           ELSE /\ txns' = [txns EXCEPT ![id] =
                       Commit(txns[id], obj,
                              AdvanceAssigned(sessions[w].base[1]))]
                /\ tasks' = tasks \o sessions[w].pending
                /\ EndRequest(w, "ok", NoReason)
                /\ UNCHANGED <<docs, now>>

\* a handler that runs from its query to its commit with no other handler
\* in between: no session is left open
Serial(handler) == handler /\ UNCHANGED sessions

\* the runs of one case, with the clock standing still: every operation on
\* it, complete_task on the first MaxTaskInput tasks, documents of the case
Next ==
    \/ \E seed \in Seeds : txns = <<>> /\ Serial(create_transaction(seed))
    \/ \E id \in DOMAIN txns : Serial(can_advance(id))
    \/ \E id \in DOMAIN txns, notes \in NotesInputs, force \in BOOLEAN :
          Serial(advance_stage(id, notes, force))
    \/ \E id \in DOMAIN txns, notes \in NotesInputs, force \in BOOLEAN :
          Serial(advance_transaction_stage(id, notes, force))
    \/ \E id \in DOMAIN txns, deposited_at \in DepositedAtInputs :
          Serial(deposit_earnest_money(id, deposited_at, None))
    \/ \E id \in DOMAIN txns : Serial(verify_funds(id, None))
    \/ \E task_id \in TaskIdInputs, notes \in CompletionNotesInputs :
          Serial(complete_task(task_id, notes))
    \/ \E id \in DOMAIN txns, document_type \in DocTypeInputs :
          Len(docs) < MaxDocs /\ Serial(upload_document(id, document_type))
    \/ \E d \in DOMAIN docs, status \in DocStatusInputs :
          Serial(review_document(d, status))

Spec == Init /\ [][Next]_vars

\* the runs of one case in which the tasks of the current stage are worked
\* on, whichever they are, force is used only on a case that has no blocking
\* task of its stage left, and documents are filed for the case or for
\* another one
NextGate ==
    \/ \E seed \in Seeds : txns = <<>> /\ Serial(create_transaction(seed))
    \/ \E id \in DOMAIN txns : Serial(can_advance(id))
    \/ \E id \in DOMAIN txns : Serial(advance_stage(id, None, FALSE))
    \/ \E id \in DOMAIN txns :
          /\ BlockingTasks(tasks, txns[id]) = <<>>
          /\ Serial(advance_stage(id, None, TRUE))
    \/ \E k \in DOMAIN tasks, notes \in CompletionNotesInputs :
          /\ TxnExists(tasks[k].transaction_id)
          /\ tasks[k].related_stage
                = StageValue(txns[tasks[k].transaction_id].current_stage)
          /\ Serial(complete_task(tasks[k].id, notes))
    \/ \E id \in DocOwnerInputs, document_type \in DocTypeInputs :
          Len(docs) < MaxDocs /\ Serial(upload_document(id, document_type))
    \/ \E d \in DOMAIN docs, status \in DocStatusInputs :
          Serial(review_document(d, status))

SpecGate == Init /\ [][NextGate]_vars

\* the runs of one case while the clock moves: the case is created and moved
\* with and without force, its first task is completed and completed again,
\* its earnest money is deposited and its funds are verified
NextClock ==
    \/ \E seed \in Seeds : txns = <<>> /\ Serial(create_transaction(seed))
    \/ now < MaxTime /\ Serial(Tick)
    \/ \E id \in DOMAIN txns, force \in BOOLEAN :
          Serial(advance_stage(id, None, force))
    \/ \E task_id \in ClockTaskIdInputs, notes \in CompletionNotesInputs :
          Serial(complete_task(task_id, notes))
    \/ \E id \in DOMAIN txns, deposited_at \in DepositedAtInputs :
          Serial(deposit_earnest_money(id, deposited_at, None))
    \/ \E id \in DOMAIN txns : Serial(verify_funds(id, None))

SpecClock == Init /\ [][NextClock]_vars

\* the runs of two server processes on one database: cases are created and
\* moved, with and without force, every query and every commit a step
NextRace ==
    \/ \E w \in Workers, seed \in Seeds : BeginCreate(w, seed)
    \/ \E w \in Workers : CommitCreate(w)
    \/ \E w \in Workers : GenerateCreate(w)
    \/ \E w \in Workers : CommitCreateTasks(w)
    \/ \E w \in Workers, id \in DOMAIN txns, force \in BOOLEAN :
          LoadAdvance(w, id, force)
    \/ \E w \in Workers : CheckAdvance(w)
    \/ \E w \in Workers : GenerateAdvance(w)
    \/ \E w \in Workers : CommitAdvance(w)

SpecRace == Init /\ [][NextRace]_vars

\* the runs of two cases, one handler at a time: both are created, moved
\* with and without force up to position MaxPairStage, asked whether they
\* can advance, their earnest money is deposited and their funds are
\* verified, and complete_task is called on the first MaxTaskInput tasks
NextPair ==
    \/ \E seed \in Seeds :
          Len(txns) + 1 \in PairCaseIds /\ Serial(create_transaction(seed))
    \/ \E id \in DOMAIN txns : Serial(can_advance(id))
    \/ \E id \in DOMAIN txns, force \in BOOLEAN :
          /\ StageIndex(txns[id].current_stage) < MaxPairStage
          /\ Serial(advance_stage(id, None, force))
    \/ \E task_id \in TaskIdInputs, notes \in CompletionNotesInputs :
          Serial(complete_task(task_id, notes))
    \/ \E id \in DOMAIN txns :
          Serial(deposit_earnest_money(id, NoTime, None))
    \/ \E id \in DOMAIN txns : Serial(verify_funds(id, None))

SpecPair == Init /\ [][NextPair]_vars

\* the runs of one case that is moved with and without force up to position
\* MaxBacklogStage while any of its tasks, of the current stage or of a
\* stage left behind, is completed
NextBacklog ==
    \/ \E seed \in Seeds : txns = <<>> /\ Serial(create_transaction(seed))
    \/ \E id \in DOMAIN txns : Serial(can_advance(id))
    \/ \E id \in DOMAIN txns, force \in BOOLEAN :
          /\ StageIndex(txns[id].current_stage) < MaxBacklogStage
          /\ Serial(advance_stage(id, None, force))
    \/ \E k \in DOMAIN tasks, notes \in CompletionNotesInputs :
          Serial(complete_task(tasks[k].id, notes))

SpecBacklog == Init /\ [][NextBacklog]_vars

\* the runs of one case in which the clock may move on between two readings
\* of one call: the case is created and moved with and without force
NextReadings ==
    \/ \E seed \in Seeds, later \in now..MaxTime :
          txns = <<>> /\ Serial(create_transaction_reading(seed, later))
    \/ now < MaxTime /\ Serial(Tick)
    \/ \E id \in DOMAIN txns, force \in BOOLEAN, later \in now..MaxTime :
          Serial(advance_stage_reading(id, force, later))

SpecReadings == Init /\ [][NextReadings]_vars

\* the runs of one case that is never forced: the tasks of its current
\* stage are put in every status and completed, and it is asked whether it
\* can advance and advanced
NextStatus ==
    \/ \E seed \in Seeds : txns = <<>> /\ Serial(create_transaction(seed))
    \/ \E id \in DOMAIN txns : Serial(can_advance(id))
    \/ \E id \in DOMAIN txns : Serial(advance_stage(id, None, FALSE))
    \/ \E k \in DOMAIN tasks, status \in TaskStatusInputs :
          /\ TxnExists(tasks[k].transaction_id)
          /\ tasks[k].related_stage
                = StageValue(txns[tasks[k].transaction_id].current_stage)
          /\ Serial(set_task_status(k, status))
    \/ \E k \in DOMAIN tasks, notes \in CompletionNotesInputs :
          /\ TxnExists(tasks[k].transaction_id)
          /\ tasks[k].related_stage
                = StageValue(txns[tasks[k].transaction_id].current_stage)
          /\ Serial(complete_task(tasks[k].id, notes))

SpecStatus == Init /\ [][NextStatus]_vars

(* The payment endpoints called again and again while the clock moves,  *)
(* with every request field that they store.                              *)
NextPayments ==
    \/ \E seed \in Seeds : txns = <<>> /\ Serial(create_transaction(seed))
    \/ now < MaxTime /\ Serial(Tick)
    \/ \E id \in DOMAIN txns : Serial(advance_stage(id, None, TRUE))
    \/ \E id \in DOMAIN txns, deposited_at \in DepositedAtInputs :
          Serial(deposit_earnest_money(id, deposited_at, None))
    \/ \E id \in DOMAIN txns, verified_by \in VerifiedByInputs :
          Serial(verify_funds_by(id, verified_by, None))

SpecPayments == Init /\ [][NextPayments]_vars

(* One case worked stage by stage without force while days pass between   *)
(* the requests, so that due dates and nominal stage durations are         *)
(* exceeded.                                                               *)
NextOverdue ==
    \/ \E seed \in Seeds : txns = <<>> /\ Serial(create_transaction(seed))
    \/ \E days \in ElapseDaysInputs :
          now < MaxElapses * timedelta(days) /\ Serial(Elapse(days))
    \/ \E id \in DOMAIN txns : Serial(can_advance(id))
    \/ \E id \in DOMAIN txns : Serial(advance_stage(id, None, FALSE))
    \/ \E k \in DOMAIN tasks, notes \in CompletionNotesInputs :
          /\ TxnExists(tasks[k].transaction_id)
          /\ tasks[k].related_stage
                = StageValue(txns[tasks[k].transaction_id].current_stage)
          /\ Serial(complete_task(tasks[k].id, notes))

SpecOverdue == Init /\ [][NextOverdue]_vars

(* ---------------------------------------------------------------------- *)
(* scripts/test_state_machine.py                                           *)
(* ---------------------------------------------------------------------- *)
\* Transaction(id="TXN-TEST-001", ...) of create_test_transaction; the one
\* test case has the identifier 1
TestTransaction(clock) ==
    [NewTransaction(1, [buyer_id |-> "PARTY-TEST-001",
                        title_officer_id |-> "PARTY-TEST-003"], clock)
       EXCEPT !.seller_id = "PARTY-TEST-002",
              !.estimated_closing_date = clock + timedelta(14),
              !.stage_history = <<[stage |-> "offer_accepted",
                                   entered_at |-> clock,
                                   notes |-> "Initial stage"]>>]

\* the row is added and committed; no task is generated
create_test_transaction ==
    /\ txns = <<>>
    /\ txns' = <<TestTransaction(now)>>
    /\ last' = Call("create_test_transaction", 1, 0, FALSE, "ok", NoReason)
    /\ UNCHANGED <<tasks, docs, now>>

\* main, lines 202-204: the bulk DELETE on the transactions table and the
\* commit (the parties are not part of the state); no other table is touched
delete_test_transactions ==
    /\ txns # <<>>
    /\ txns' = <<>>
    /\ last' = Call("delete_test_transactions", 0, 0, FALSE, "ok", NoReason)
    /\ UNCHANGED <<tasks, docs, now>>

\* the script run again and again on one database: clean-up, the test case,
\* the question and the forced advance of test_stage_advancement; the tasks
\* are completed through the API in between
NextScript ==
    \/ Serial(delete_test_transactions)
    \/ Len(tasks) < MaxScriptTasks /\ Serial(create_test_transaction)
    \/ \E id \in DOMAIN txns : Serial(can_advance(id))
    \/ \E id \in DOMAIN txns :
          Serial(advance_stage(id, "Test advancement", TRUE))
    \/ \E task_id \in ClockTaskIdInputs, notes \in CompletionNotesInputs :
          Serial(complete_task(task_id, notes))

SpecScript == Init /\ [][NextScript]_vars

(* One case taken through its stages without force: the tasks of the      *)
(* current stage are completed, a document of the type the stage requires *)
(* is put on file and approved, and the unforced advance is retried.       *)
CreateLive ==
    \E seed \in Seeds : txns = <<>> /\ Serial(create_transaction(seed))

AdvanceLive ==
    \E id \in DOMAIN txns : Serial(advance_stage(id, None, FALSE))

CompleteLive ==
    \E k \in DOMAIN tasks, notes \in CompletionNotesInputs :
        /\ TxnExists(tasks[k].transaction_id)
        /\ tasks[k].related_stage
              = StageValue(txns[tasks[k].transaction_id].current_stage)
        /\ tasks[k].status # "COMPLETED"
        /\ Serial(complete_task(tasks[k].id, notes))

UploadLive ==
    \E id \in DOMAIN txns, document_type \in DocumentType :
        /\ stage_document_requirements(txns[id].current_stage) # <<>>
        /\ DocumentTypeValue(document_type)
              = stage_document_requirements(txns[id].current_stage)[1]
        /\ \A d \in DOMAIN docs :
              ~ ( /\ docs[d].transaction_id = txns[id].id
                  /\ docs[d].document_type = document_type )
        /\ Serial(upload_document(id, document_type))

ApproveLive ==
    \E d \in DOMAIN docs : Serial(review_document(d, "APPROVED"))

NextLive ==
    \/ CreateLive
    \/ AdvanceLive
    \/ CompleteLive
    \/ UploadLive
    \/ ApproveLive

\* every request that can be made is made in the end
SpecLive ==
    /\ Init
    /\ [][NextLive]_vars
    /\ WF_vars(CreateLive)
    /\ WF_vars(AdvanceLive)
    /\ WF_vars(CompleteLive)
    /\ WF_vars(UploadLive)
    /\ WF_vars(ApproveLive)


(* ====================================================================== *)
(* Properties                                                              *)
(* ====================================================================== *)
\* the stage-entered entries of a history log, told from the domain events
\* by the key "stage", in log order
StageEntered(history) == SelectSeq(history, LAMBDA e : "stage" \in DOMAIN e)

\* seq names the first Len(seq) stages of STAGE_ORDER, in order
IsOrderPrefix(seq) ==
    /\ Len(seq) >= 1
    /\ Len(seq) <= Len(STAGE_ORDER)
    /\ \A i \in 1..Len(seq) : seq[i].stage = StageValue(STAGE_ORDER[i])

AdvanceCalls == {"advance_stage", "advance_transaction_stage"}

\* the blocking tasks of case id for its current stage that are not completed
IncompleteBlockingItems(id) ==
    {k \in DOMAIN tasks :
        /\ tasks[k].transaction_id = txns[id].id
        /\ tasks[k].related_stage = StageValue(txns[id].current_stage)
        /\ tasks[k].is_blocking
        /\ tasks[k].status # "COMPLETED"}

\* the reason is the blocking-tasks reason and lists the titles of exactly
\* the tasks in items
ListsTitlesOf(reason, items) ==
    /\ reason.kind = "blocking"
    /\ {reason.titles[i] : i \in DOMAIN reason.titles} = {tasks[k].title : k \in items}
    /\ Len(reason.titles) = Cardinality(items)

\* the step is a direct advance_stage call on case id with this force
IsAdvanceStage(id, force) ==
    /\ last'.op = "advance_stage"
    /\ \E notes \in NotesInputs : advance_stage(id, notes, force)

\* the step is an advance of case id by either entry point
IsAdvance(id, force) ==
    /\ last'.op \in AdvanceCalls
    /\ \E notes \in NotesInputs :
          \/ advance_stage(id, notes, force)
          \/ advance_transaction_stage(id, notes, force)

\* the step is a can_advance call on case id
IsCanAdvance(id) == last'.op = "can_advance" /\ can_advance(id)

\* the step is a complete_task call on the task with this id
IsCompleteTask(task_id) ==
    /\ last'.op = "complete_task"
    /\ \E notes \in CompletionNotesInputs : complete_task(task_id, notes)

\* C1: in every reachable state the stage-entered entries of each case's
\* history log, in log order, are a contiguous prefix of the 7-stage order
\* that starts at the first stage (nothing skipped, repeated or reordered).
C1_HistoryIsOrderPrefix ==
    \A id \in DOMAIN txns : IsOrderPrefix(StageEntered(txns[id].stage_history))

\* a case that was forced into a later stage, had a task completed and its
\* earnest money deposited and funds verified
C1_Witness ==
    \E id \in DOMAIN txns :
        /\ StageIndex(txns[id].current_stage) >= 2
        /\ txns[id].earnest_money_status = "DEPOSITED"
        /\ txns[id].funds_verified
        /\ \E i \in DOMAIN tasks : tasks[i].status = "COMPLETED"
        /\ last.op \in AdvanceCalls /\ last.result = "ok"

\* C2 as claimed: whenever a case has an incomplete blocking task of its
\* current stage, can_advance returns false and an unforced advance_stage
\* raises StageRequirementError listing the titles, in whatever stage.
C2_BlockedInAnyStage ==
    [][\A id \in DOMAIN txns :
          IncompleteBlockingItems(id) # {} =>
             /\ ~can_advance_to_next_stage(tasks, docs, txns[id])[1]
             /\ IsAdvanceStage(id, FALSE) =>
                   /\ last'.result = "StageRequirementError"
                   /\ ListsTitlesOf(last'.reason, IncompleteBlockingItems(id))]_vars

\* C2 amended: in a non-terminal stage, a case with an incomplete blocking
\* task of its current stage gets (false, the joined titles) from can_advance
\* and StageRequirementError with that reason from an unforced advance_stage,
\* which changes nothing; in the terminal stage can_advance is false as well
\* but advance_stage raises StageTransitionError.
C2_BlockedBeforeTerminal ==
    [][\A id \in DOMAIN txns :
          IncompleteBlockingItems(id) # {} =>
             /\ ~can_advance_to_next_stage(tasks, docs, txns[id])[1]
             /\ (IsCanAdvance(id) => last'.result = "false")
             /\ IsAdvanceStage(id, FALSE) =>
                   IF IsFinalStage(txns[id].current_stage)
                   THEN last'.result = "StageTransitionError"
                   ELSE /\ last'.result = "StageRequirementError"
                        /\ ListsTitlesOf(last'.reason, IncompleteBlockingItems(id))
                        /\ can_advance_to_next_stage(tasks, docs, txns[id])[2] = last'.reason
                        /\ UNCHANGED <<txns, tasks, docs>>]_vars

\* an unforced advance_stage was refused in a non-terminal stage because of
\* outstanding blocking tasks
C2_Witness ==
    /\ last.op = "advance_stage" /\ ~last.force
    /\ last.result = "StageRequirementError"
    /\ last.reason.kind = "blocking" /\ last.reason.titles # <<>>
    /\ ~IsFinalStage(txns[last.txn].current_stage)
    /\ IncompleteBlockingItems(last.txn) # {}


\* C3: advance_stage with force = true succeeds in every non-terminal stage,
\* whatever blocking tasks are outstanding and whatever documents are missing,
\* and moves the case to the next stage; in the terminal stage it raises
\* StageTransitionError and never StageRequirementError.
C3_ForceBypassesRequirementsOnly ==
    [][\A id \in DOMAIN txns :
          IsAdvanceStage(id, TRUE) =>
             IF IsFinalStage(txns[id].current_stage)
             THEN /\ last'.result = "StageTransitionError"
                  /\ txns'[id].current_stage = txns[id].current_stage
             ELSE /\ last'.result = "ok"
                  /\ txns'[id].current_stage
                        = StageAt(StageIndex(txns[id].current_stage) + 1)]_vars

\* a forced advance went through although the stage left behind still has an
\* incomplete blocking task and can_advance had refused
C3_Witness ==
    /\ last.op = "advance_stage" /\ last.force /\ last.result = "ok"
    /\ StageIndex(txns[last.txn].current_stage) >= 3
    /\ \E i \in DOMAIN tasks :
          /\ tasks[i].transaction_id = txns[last.txn].id
          /\ tasks[i].is_blocking
          /\ tasks[i].status # "COMPLETED"
          /\ tasks[i].related_stage
                = StageValue(StageAt(StageIndex(txns[last.txn].current_stage) - 1))

\* C4: an advance call that fails (StageTransitionError or
\* StageRequirementError from advance_stage, the 400 answer of the endpoint)
\* leaves every case, with its stage, stage_started_at, history and closing
\* dates, every task and every document as they were.
C4_FailedAdvanceChangesNothing ==
    [][\A id \in DOMAIN txns :
          ( /\ last'.op \in AdvanceCalls
            /\ last'.result # "ok"
            /\ IsAdvance(id, last'.force) ) =>
             UNCHANGED <<txns, tasks, docs, now>>]_vars

\* an advance has just been refused for a case that has moved on before
C4_Witness ==
    /\ last.op \in AdvanceCalls
    /\ last.result \in {"StageTransitionError", "StageRequirementError", "HTTP_400"}
    /\ StageIndex(txns[last.txn].current_stage) >= 1

\* C5 as claimed: the stored history of a case grows by exactly one entry,
\* keeping the entries it had, with each successful advance,
\* deposit_earnest_money or verify_funds, and no other step changes it.
C5_HistoryGrowsByOne ==
    [][\A id \in DOMAIN txns :
          LET before == txns[id].stage_history
              after == txns'[id].stage_history
          IN  IF /\ last'.txn = id
                 /\ last'.result = "ok"
                 /\ last'.op \in AdvanceCalls \cup {"deposit_earnest_money", "verify_funds"}
              THEN /\ Len(after) = Len(before) + 1
                   /\ SubSeq(after, 1, Len(before)) = before
              ELSE after = before]_vars

\* C6: once a case is in the last stage its current stage never changes again,
\* whatever is called on it.
C6_TerminalIsAbsorbing ==
    [][\A id \in DOMAIN txns :
          IsFinalStage(txns[id].current_stage) =>
             txns'[id].current_stage = txns[id].current_stage]_vars

\* a case in the last stage on which a forced advance was attempted
C6_Witness ==
    /\ last.op \in AdvanceCalls /\ last.force
    /\ last.result # "ok"
    /\ IsFinalStage(txns[last.txn].current_stage)

\* C7: the position of a case in the stage order never decreases; it changes
\* only in a successful advance of that case, and then by exactly one.
C7_StagePointerMovesForwardByOne ==
    [][\A id \in DOMAIN txns :
          LET i == StageIndex(txns[id].current_stage)
              j == StageIndex(txns'[id].current_stage)
          IN  /\ j >= i
              /\ j # i => /\ j = i + 1
                          /\ last'.op \in AdvanceCalls
                          /\ last'.txn = id
                          /\ last'.result = "ok"]_vars

\* a case forced into the third stage after every task of the first stage
\* was completed
C7_Witness ==
    /\ last.op \in AdvanceCalls /\ last.force /\ last.result = "ok"
    /\ txns[last.txn].current_stage = "UNDERWRITING"
    /\ \A i \in DOMAIN tasks :
          tasks[i].related_stage = StageValue("OFFER_ACCEPTED") =>
             tasks[i].status = "COMPLETED"

\* case id has a document whose type has this value, in APPROVED status
HasApprovedDocument(id, type_value) ==
    \E d \in DOMAIN docs :
        /\ docs[d].transaction_id = txns[id].id
        /\ DocumentTypeValue(docs[d].document_type) = type_value
        /\ docs[d].status = "APPROVED"

\* case id is in a non-terminal stage that requires a document type of which
\* the case has no approved document
LacksRequiredDocument(id) ==
    /\ ~IsFinalStage(txns[id].current_stage)
    /\ stage_document_requirements(txns[id].current_stage) # <<>>
    /\ ~HasApprovedDocument(id, stage_document_requirements(txns[id].current_stage)[1])

\* C8: in underwriting, clear-to-close and final-documents a case without an
\* APPROVED document of the stage's required type, of its own, is refused by
\* can_advance and by an unforced advance_stage (StageRequirementError, case
\* unchanged), and once every blocking task of the stage is completed the
\* reason names the missing document type; a document of the type in another
\* status, or of another case, changes nothing in this.
C8_RequiredDocumentGates ==
    /\ [](\A id \in DOMAIN txns :
             LacksRequiredDocument(id) =>
                /\ ~can_advance_to_next_stage(tasks, docs, txns[id])[1]
                /\ IncompleteBlockingItems(id) = {} =>
                      can_advance_to_next_stage(tasks, docs, txns[id])[2]
                         = DocumentReason(
                              stage_document_requirements(txns[id].current_stage)[1]))
    /\ [][\A id \in DOMAIN txns :
             (LacksRequiredDocument(id) /\ IsAdvanceStage(id, FALSE)) =>
                /\ last'.result = "StageRequirementError"
                /\ UNCHANGED <<txns, tasks, docs>>]_vars

\* in underwriting with every blocking task completed, and a proof of funds
\* on file that is not approved or belongs to another case, an unforced
\* advance has just been refused for the missing document
C8_Witness ==
    /\ last.op = "advance_stage" /\ ~last.force
    /\ last.result = "StageRequirementError"
    /\ last.reason = DocumentReason("proof_of_funds")
    /\ txns[last.txn].current_stage = "UNDERWRITING"
    /\ IncompleteBlockingItems(last.txn) = {}
    /\ LacksRequiredDocument(last.txn)
    /\ \E d \in DOMAIN docs :
          /\ DocumentTypeValue(docs[d].document_type) = "proof_of_funds"
          /\ \/ docs[d].transaction_id = txns[last.txn].id /\ docs[d].status # "APPROVED"
             \/ docs[d].transaction_id # txns[last.txn].id /\ docs[d].status = "APPROVED"

\* the document requirement of the current stage of case id is met: the stage
\* requires no document, or the case has an approved document of the type
DocumentRequirementMet(id) ==
    \/ stage_document_requirements(txns[id].current_stage) = <<>>
    \/ HasApprovedDocument(id, stage_document_requirements(txns[id].current_stage)[1])

\* task k is the one unmet requirement of case id: the case is not in the
\* last stage, k is the only incomplete blocking task of its current stage
\* and the document requirement of the stage is met
OnlyUnmetRequirement(id, k) ==
    /\ ~IsFinalStage(txns[id].current_stage)
    /\ IncompleteBlockingItems(id) = {k}
    /\ DocumentRequirementMet(id)

\* C9 as claimed: when one incomplete blocking task of the current stage is
\* all that keeps a non-terminal case from advancing, then right after
\* complete_task has completed it can_advance returns (true, no reason), and
\* an unforced advance made in that state succeeds and moves the case one
\* stage on.
C9_CompletingLastBlockerUnblocks ==
    [][\A id \in DOMAIN txns :
          /\ \A k \in DOMAIN tasks :
                ( /\ last'.op = "complete_task"
                  /\ OnlyUnmetRequirement(id, k)
                  /\ IsCompleteTask(tasks[k].id) ) =>
                   /\ tasks'[k].status = "COMPLETED"
                   /\ can_advance_to_next_stage(tasks', docs', txns'[id])
                         = <<TRUE, NoReason>>
          /\ ( /\ last.op = "complete_task" /\ last.result = "ok"
               /\ TaskRow(last.task) # 0
               /\ tasks[TaskRow(last.task)].transaction_id = txns[id].id
               /\ tasks[TaskRow(last.task)].is_blocking
               /\ tasks[TaskRow(last.task)].related_stage
                     = StageValue(txns[id].current_stage)
               /\ IncompleteBlockingItems(id) = {}
               /\ DocumentRequirementMet(id)
               /\ ~IsFinalStage(txns[id].current_stage)
               /\ IsAdvance(id, FALSE) ) =>
                   /\ last'.result = "ok"
                   /\ txns'[id].current_stage
                         = StageAt(StageIndex(txns[id].current_stage) + 1)]_vars

\* C10: a can_advance call changes no case, no history entry, no task and no
\* document, and as long as the last thing that happened is a can_advance
\* call, calling it again returns what that call returned.
C10_CanAdvanceIsReadOnly ==
    /\ [][\A id \in DOMAIN txns :
             IsCanAdvance(id) => UNCHANGED <<txns, tasks, docs, now>>]_vars
    /\ [](last.op = "can_advance" =>
             /\ last.result = (IF can_advance_to_next_stage(tasks, docs, txns[last.txn])[1]
                               THEN "true" ELSE "false")
             /\ last.reason = can_advance_to_next_stage(tasks, docs, txns[last.txn])[2])

\* can_advance has just refused a case that has tasks, a document and history
C10_Witness ==
    /\ last.op = "can_advance" /\ last.result = "false"
    /\ last.reason.kind = "blocking"
    /\ docs # <<>>
    /\ StageIndex(txns[last.txn].current_stage) >= 1



\* C11: a task whose status is COMPLETED keeps its status, completed_at and
\* completion notes in every step, whatever is called and however late;
\* complete_task on it returns success ("already completed"), raises nothing
\* and changes no task.
C11_CompletedTaskIsImmutable ==
    [][\A k \in DOMAIN tasks :
          tasks[k].status = "COMPLETED" =>
             /\ tasks'[k].status = "COMPLETED"
             /\ tasks'[k].completed_at = tasks[k].completed_at
             /\ tasks'[k].completion_notes = tasks[k].completion_notes
             /\ IsCompleteTask(tasks[k].id) =>
                   /\ last'.result = "already_completed"
                   /\ tasks' = tasks]_vars

\* complete_task was called on a task that had been completed at an earlier
\* reading of the clock, and the task still carries the earlier time
C11_Witness ==
    /\ last.op = "complete_task" /\ last.result = "already_completed"
    /\ TaskRow(last.task) # 0
    /\ tasks[TaskRow(last.task)].status = "COMPLETED"
    /\ tasks[TaskRow(last.task)].completed_at < now


\* the step generates tasks for case id: create_transaction, or an advance
\* that went through
IsStageEntry(id) ==
    /\ last'.txn = id
    /\ last'.result = "ok"
    /\ last'.op \in AdvanceCalls \cup {"create_transaction"}
    /\ \/ id \notin DOMAIN txns
       \/ txns'[id].current_stage # txns[id].current_stage

\* the rows a step has added at the end of the tasks table
AddedTasks == SubSeq(tasks', Len(tasks) + 1, Len(tasks'))

\* rows are the template of stage for case t: as many, in the template's
\* order, with its titles and blocking flags, attached to t, pending, and
\* assigned to the party t binds to the template's role (None without one)
IsTemplateOf(rows, stage, t) ==
    /\ Len(rows) = Len(stage_tasks(stage))
    /\ \A j \in 1..Len(rows) :
          /\ rows[j].title = stage_tasks(stage)[j].title
          /\ rows[j].is_blocking = stage_tasks(stage)[j].is_blocking
          /\ rows[j].transaction_id = t.id
          /\ rows[j].related_stage = StageValue(stage)
          /\ rows[j].status = "PENDING"
          /\ rows[j].assigned_to = t[stage_tasks(stage)[j].assigned_role \o "_id"]

\* C12: every step that enters a stage S for a case (its creation, an advance
\* that succeeds) adds exactly the tasks of the template of S: same number,
\* titles and blocking flags, attached to the case, related_stage = S,
\* pending, assigned to the party the case binds to the template's role and
\* to nobody where the role is unassigned; the rows that were there stay in
\* place, and no other step adds a task.
C12_GenerateFollowsTemplate ==
    [][/\ Len(tasks') >= Len(tasks)
       /\ \A id \in DOMAIN txns' :
             IsStageEntry(id) =>
                IsTemplateOf(AddedTasks, txns'[id].current_stage, txns'[id])
       /\ (\A id \in DOMAIN txns' : ~IsStageEntry(id)) => Len(tasks') = Len(tasks)]_vars

\* an advance into underwriting has just generated tasks for a bound role
\* and for a role nobody is bound to
C12_Witness ==
    /\ last.op \in AdvanceCalls /\ last.result = "ok"
    /\ txns[last.txn].current_stage = "UNDERWRITING"
    /\ txns[last.txn].loan_officer_id = None
    /\ \E i, j \in DOMAIN tasks :
          /\ tasks[i].related_stage = StageValue("UNDERWRITING")
          /\ tasks[j].related_stage = StageValue("UNDERWRITING")
          /\ tasks[i].assigned_to = txns[last.txn].buyer_id
          /\ tasks[i].assigned_to # None
          /\ tasks[j].assigned_to = None


\* the rows of the tasks table that belong to case id, in table order
TasksOf(id) == SelectSeq(tasks, LAMBDA k : k.transaction_id = txns[id].id)

\* C13: as long as nothing but its creation has been called, a case is in the
\* first stage, its stored history is exactly one stage-entered entry, for
\* the first stage, it has no actual closing date, its tasks are exactly
\* "Deposit earnest money", "Upload proof of funds" and "Open escrow account"
\* for the first stage, all blocking and pending, and can_advance is false.
C13_NewCase ==
    last.op = "create_transaction" =>
       LET t == txns[last.txn]
           ks == TasksOf(last.txn)
       IN  /\ t.current_stage = STAGE_ORDER[1]
           /\ Len(t.stage_history) = 1
           /\ "stage" \in DOMAIN t.stage_history[1]
           /\ t.stage_history[1].stage = "offer_accepted"
           /\ t.actual_closing_date = NoTime
           /\ [j \in 1..Len(ks) |-> ks[j].title]
                 = <<"Deposit earnest money", "Upload proof of funds",
                     "Open escrow account">>
           /\ \A j \in 1..Len(ks) :
                 /\ ks[j].is_blocking
                 /\ ks[j].status = "PENDING"
                 /\ ks[j].related_stage = "offer_accepted"
           /\ ~can_advance_to_next_stage(tasks, docs, t)[1]
           /\ can_advance_to_next_stage(tasks, docs, t)[2].kind = "blocking"

\* a case created after the clock has moved, with nothing called since
C13_Witness ==
    /\ last.op = "create_transaction"
    /\ txns[last.txn].created_at > 0
    /\ Len(tasks) = 3


\* the step is an advance of case id that went through
IsSuccessfulAdvance(id) ==
    /\ last'.op \in AdvanceCalls
    /\ last'.txn = id
    /\ last'.result = "ok"
    /\ txns'[id].current_stage # txns[id].current_stage

\* C14 as claimed: an advance that succeeds, forced or not, sets the current
\* stage to the next stage S, leaves the stored history one entry longer, the
\* new entry being the stage-entered entry of S, and adds exactly the template
\* tasks of S; for a fresh case whose three first-stage tasks are completed
\* an unforced advance gives the second stage, a history of length 2 and the
\* tasks "Order title search" and "Review title report".
C14_AdvanceEntersStage ==
    [][\A id \in DOMAIN txns :
          IsSuccessfulAdvance(id) =>
             LET S == StageAt(StageIndex(txns[id].current_stage) + 1)
                 before == txns[id].stage_history
                 after == txns'[id].stage_history
             IN  /\ txns'[id].current_stage = S
                 /\ Len(after) = Len(before) + 1
                 /\ SubSeq(after, 1, Len(before)) = before
                 /\ "stage" \in DOMAIN after[Len(after)]
                 /\ after[Len(after)].stage = StageValue(S)
                 /\ IsTemplateOf(AddedTasks, S, txns'[id])
                 /\ ( /\ Len(before) = 1
                      /\ txns[id].current_stage = STAGE_ORDER[1]
                      /\ ~last'.force ) =>
                         /\ S = STAGE_ORDER[2]
                         /\ Len(after) = 2
                         /\ [j \in 1..Len(AddedTasks) |-> AddedTasks[j].title]
                               = <<"Order title search", "Review title report">>]_vars


\* the days from each stage of the order through the last one: the nominal
\* durations are 1, 2, 4, 1, 2, 2, 1
RemainingDays == <<13, 12, 10, 6, 5, 3, 1>>

\* C15: for every case estimate_days_to_close is the sum of the nominal
\* durations from the current stage through the last stage, both included:
\* 13 in the first stage and 1, not 0, in the last; it depends on nothing but
\* the current stage, and every advance that succeeds makes it smaller.
C15_EstimateIsRemainingDuration ==
    /\ [](\A id \in DOMAIN txns :
             /\ estimate_days_to_close(txns[id])
                   = RemainingDays[StageIndex(txns[id].current_stage) + 1]
             /\ txns[id].current_stage = STAGE_ORDER[1] =>
                   estimate_days_to_close(txns[id]) = 13
             /\ IsFinalStage(txns[id].current_stage) =>
                   estimate_days_to_close(txns[id]) = 1)
    /\ [][\A id \in DOMAIN txns :
             IF IsSuccessfulAdvance(id)
             THEN estimate_days_to_close(txns'[id]) < estimate_days_to_close(txns[id])
             ELSE estimate_days_to_close(txns'[id]) = estimate_days_to_close(txns[id])]_vars

\* a case that reached the last stage after the clock had moved
C15_Witness ==
    \E id \in DOMAIN txns :
        /\ IsFinalStage(txns[id].current_stage)
        /\ txns[id].stage_started_at > txns[id].created_at
        /\ estimate_days_to_close(txns[id]) = 1


\* C16: a case has an actual closing date exactly when it is in the last
\* stage; the date is written in one step only, the successful advance that
\* enters the last stage, which sets it to the time of that call, and no later
\* step changes it.
C16_ActualClosingDate ==
    /\ [](\A id \in DOMAIN txns :
             (txns[id].actual_closing_date # NoTime)
                <=> IsFinalStage(txns[id].current_stage))
    /\ [][\A id \in DOMAIN txns :
             txns'[id].actual_closing_date # txns[id].actual_closing_date =>
                /\ IsSuccessfulAdvance(id)
                /\ IsFinalStage(txns'[id].current_stage)
                /\ txns[id].actual_closing_date = NoTime
                /\ txns'[id].actual_closing_date = now]_vars

\* a closed case: the clock has moved since the last advance, an advance was
\* tried again, and the closing date is still the time of entry
C16_Witness ==
    /\ last.op = "advance_stage" /\ last.result = "StageTransitionError"
    /\ IsFinalStage(txns[last.txn].current_stage)
    /\ txns[last.txn].actual_closing_date = txns[last.txn].stage_started_at
    /\ txns[last.txn].actual_closing_date < now
    /\ txns[last.txn].actual_closing_date > txns[last.txn].created_at


\* the number of copies of the template of stage that taskTable holds for
\* case id, counted on the first title of the template
TemplateCopies(taskTable, id, stage) ==
    Cardinality({k \in DOMAIN taskTable :
                    /\ taskTable[k].transaction_id = txns[id].id
                    /\ taskTable[k].related_stage = StageValue(stage)
                    /\ taskTable[k].title = stage_tasks(stage)[1].title})

\* the step is the commit of an advance of case id by session w that went
\* through
IsAdvanceCommit(w, id) ==
    /\ sessions[w].pc = "generated"
    /\ sessions[w].op = "advance_stage"
    /\ sessions[w].txn = id
    /\ sessions'[w].pc = "idle"
    /\ last'.result = "ok"

\* C17: when two advance calls on one case are not serialized, both can pass
\* the requirement check on the same loaded stage and both commit: the
\* commit of the second one, made when the stored case is already in the
\* stage it enters, goes through, leaves the case in that stage and adds the
\* template tasks of the stage once more, so that the case holds them at
\* least twice.  (The stored history takes no entry from either call, so the
\* duplicate shows in the tasks.)
C17_UnserializedAdvanceDuplicates ==
    [][\A w \in Workers, id \in DOMAIN txns :
          ( /\ IsAdvanceCommit(w, id)
            /\ txns[id].current_stage = sessions[w].obj[1].current_stage ) =>
             LET S == sessions[w].obj[1].current_stage
             IN  /\ S = StageAt(StageIndex(sessions[w].base[1].current_stage) + 1)
                 /\ txns'[id].current_stage = S
                 /\ IsTemplateOf(AddedTasks, S, txns'[id])
                 /\ TemplateCopies(tasks, id, S) >= 1
                 /\ TemplateCopies(tasks', id, S)
                       = TemplateCopies(tasks, id, S) + 1]_vars

\* two advance calls loaded a fresh case in its first stage, both committed,
\* and the case is in the second stage with the tasks of that stage twice
C17_Witness ==
    /\ last.op = "advance_stage" /\ last.result = "ok"
    /\ txns[last.txn].current_stage = "TITLE_SEARCH"
    /\ TemplateCopies(tasks, last.txn, "TITLE_SEARCH") = 2
    /\ Len(TasksOf(last.txn)) = 7


\* the stored history of case id has a stage-entered entry for stage
HasStageEntry(id, stage) ==
    \E i \in DOMAIN txns[id].stage_history :
        /\ "stage" \in DOMAIN txns[id].stage_history[i]
        /\ txns[id].stage_history[i].stage = StageValue(stage)

\* every task of the template of stage is stored for case id
HasStageTasks(id, stage) ==
    \A j \in DOMAIN stage_tasks(stage) :
        \E k \in DOMAIN tasks :
            /\ tasks[k].transaction_id = txns[id].id
            /\ tasks[k].related_stage = StageValue(stage)
            /\ tasks[k].title = stage_tasks(stage)[j].title

\* C18 as claimed: whatever a reader finds stored at any moment, a case whose
\* current stage is S has the stage-entered entry of S in its stored history
\* and the tasks generated for S in the tasks table, after its creation as
\* after every advance.
C18_StageEntryIsAtomic ==
    \A id \in DOMAIN txns :
        /\ HasStageEntry(id, txns[id].current_stage)
        /\ HasStageTasks(id, txns[id].current_stage)


\* sessions w1 and w2 have each generated the tasks of a stage, for
\* different cases, and no task stored since carries one of their identifiers
\* (each read the count of tasks before either inserted)
GeneratedTogether(w1, w2) ==
    /\ w1 # w2
    /\ sessions[w1].pc = "generated"
    /\ sessions[w2].pc = "generated"
    /\ sessions[w1].txn # sessions[w2].txn
    /\ PendingIds(w1) \cap StoredTaskIds = {}
    /\ PendingIds(w2) \cap StoredTaskIds = {}

\* C19: two sessions that generate tasks for different cases, each reading
\* the count of all tasks before the other inserts, give their first task
\* the same identifier, the count plus one: the identifier depends on the
\* count alone, not on the case.  (The primary key of the tasks table keeps
\* the stored identifiers distinct: the later commit fails.)
C19_ConcurrentGenerateCollides ==
    /\ \A w1, w2 \in Workers :
          GeneratedTogether(w1, w2) =>
             /\ sessions[w1].pending[1].id = Len(tasks) + 1
             /\ sessions[w2].pending[1].id = Len(tasks) + 1
             /\ PendingIds(w1) \cap PendingIds(w2) # {}
    /\ \A k1, k2 \in DOMAIN tasks : tasks[k1].id = tasks[k2].id => k1 = k2

\* two cases are stored, a session holds the generated tasks of each, and
\* every identifier assigned for one case is assigned for the other too
C19_Witness ==
    /\ Len(txns) = 2
    /\ GeneratedTogether(1, 2)
    /\ PendingIds(1) = PendingIds(2)
    /\ sessions[1].pending[1].transaction_id # sessions[2].pending[1].transaction_id


\* the step is a deposit_earnest_money or a verify_funds call on case id
IsDepositOrVerify(id) ==
    /\ last'.op \in {"deposit_earnest_money", "verify_funds"}
    /\ \/ \E deposited_at \in DepositedAtInputs :
             deposit_earnest_money(id, deposited_at, None)
       \/ verify_funds(id, None)

\* the step leaves the stage, the start of the stage and both closing dates
\* of case id, and every task, as they were
KeepsStageAndTasks(id) ==
    /\ txns'[id].current_stage = txns[id].current_stage
    /\ txns'[id].stage_started_at = txns[id].stage_started_at
    /\ txns'[id].estimated_closing_date = txns[id].estimated_closing_date
    /\ txns'[id].actual_closing_date = txns[id].actual_closing_date
    /\ tasks' = tasks

\* C20 as claimed: deposit_earnest_money and verify_funds, in every stage,
\* the last one included, change neither the stage, the start of the stage,
\* the estimated or the actual closing date of the case nor any task, create
\* no task, and leave the stored history one entry longer, the new entry
\* being a domain-event entry and not a stage-entered one.
C20_DepositAndVerifyFrame ==
    [][\A id \in DOMAIN txns :
          IsDepositOrVerify(id) =>
             LET before == txns[id].stage_history
                 after == txns'[id].stage_history
             IN  /\ KeepsStageAndTasks(id)
                 /\ Len(after) = Len(before) + 1
                 /\ SubSeq(after, 1, Len(before)) = before
                 /\ "event" \in DOMAIN after[Len(after)]
                 /\ "stage" \notin DOMAIN after[Len(after)]]_vars


\* the rows of taskTable that belong to the case with this identifier
TasksOfCase(taskTable, txn_id) ==
    SelectSeq(taskTable, LAMBDA k : k.transaction_id = txn_id)

\* the step is an advance, a deposit_earnest_money or a verify_funds call on
\* case id, or a complete_task call on one of its tasks
IsOperationOn(id) ==
    \/ /\ last'.op \in AdvanceCalls \cup {"deposit_earnest_money", "verify_funds"}
       /\ last'.txn = id
    \/ /\ last'.op = "complete_task"
       /\ TaskRow(last'.task) # 0
       /\ tasks[TaskRow(last'.task)].transaction_id = txns[id].id

\* C21: with one handler running at a time, an advance, complete_task,
\* deposit_earnest_money or verify_funds on case A leaves every other case B
\* with the same row (stage, history, closing dates), the same tasks and the
\* same result and reason of can_advance.
C21_CasesAreIndependent ==
    [][\A a, b \in DOMAIN txns :
          (a # b /\ IsOperationOn(a)) =>
             /\ txns'[b] = txns[b]
             /\ TasksOfCase(tasks', txns[b].id) = TasksOfCase(tasks, txns[b].id)
             /\ can_advance_to_next_stage(tasks', docs', txns'[b])
                   = can_advance_to_next_stage(tasks, docs, txns[b])]_vars

\* the first case has every task of its stage completed and can advance,
\* and the second case, still blocked, has just been forced on
C21_Witness ==
    /\ Len(txns) = 2
    /\ last.op = "advance_stage" /\ last.txn = 2 /\ last.result = "ok"
    /\ can_advance_to_next_stage(tasks, docs, txns[1])[1]
    /\ txns[1].current_stage = STAGE_ORDER[1]
    /\ Len(TasksOfCase(tasks, 2)) = 5


\* floor(100 * index / 7) along the stage order
PercentByStage == <<0, 14, 28, 42, 57, 71, 85>>

\* C22: the percent_complete that get_stage_progress reports for a case is
\* floor(100 * index / 7) for the position index (0..6) of its current
\* stage: it never decreases from one step to the next, never reaches 100,
\* and is 85 for a case in the last stage.
C22_PercentComplete ==
    /\ [](\A id \in DOMAIN txns :
             LET index == StageIndex(txns[id].current_stage)
                 percent == get_stage_progress(txns[id]).percent_complete
             IN  /\ index \in 0..6
                 /\ percent = (100 * index) \div 7
                 /\ percent = PercentByStage[index + 1]
                 /\ percent < 100
                 /\ IsFinalStage(txns[id].current_stage) => percent = 85)
    /\ [][\A id \in DOMAIN txns :
             get_stage_progress(txns'[id]).percent_complete
                >= get_stage_progress(txns[id]).percent_complete]_vars

\* a case that went through every stage and reports 85 in the last one
C22_Witness ==
    \E id \in DOMAIN txns :
        /\ IsFinalStage(txns[id].current_stage)
        /\ get_stage_progress(txns[id]).percent_complete = 85
        /\ get_stage_progress(txns[id]).current_stage_index = 6
        /\ last.op \in AdvanceCalls /\ last.result = "ok"


\* C23: can_advance reports the first check that fails, in a fixed order: a
\* case in the last stage gets the "already complete" reason whatever tasks
\* it has; before the last stage a case with an incomplete blocking task of
\* its stage gets the blocking-tasks reason with exactly those titles, also
\* when a required document is missing; the document reason is given only
\* to a case that has no incomplete blocking task of its current stage.
C23_FirstFailureWins ==
    \A id \in DOMAIN txns :
        LET result == can_advance_to_next_stage(tasks, docs, txns[id])
        IN  /\ IsFinalStage(txns[id].current_stage) =>
                  result = <<FALSE, CompleteReason>>
            /\ ( /\ ~IsFinalStage(txns[id].current_stage)
                 /\ IncompleteBlockingItems(id) # {} ) =>
                   /\ ~result[1]
                   /\ ListsTitlesOf(result[2], IncompleteBlockingItems(id))
            /\ result[2].kind = "document" =>
                  /\ ~IsFinalStage(txns[id].current_stage)
                  /\ IncompleteBlockingItems(id) = {}

\* can_advance has just answered "already complete" for a case in the last
\* stage whose tasks of that stage are incomplete, after it had been held
\* up in an earlier stage by a missing document alone
C23_Witness ==
    /\ last.op = "can_advance" /\ last.result = "false"
    /\ last.reason = CompleteReason
    /\ IsFinalStage(txns[last.txn].current_stage)
    /\ IncompleteBlockingItems(last.txn) # {}
    /\ \E k \in DOMAIN tasks :
          /\ tasks[k].related_stage = StageValue("UNDERWRITING")
          /\ tasks[k].is_blocking
          /\ tasks[k].status = "COMPLETED"


\* the blocking tasks of case id that are not completed and were generated
\* for another stage than the one the case is in
LeftBehindItems(id) ==
    {k \in DOMAIN tasks :
        /\ tasks[k].transaction_id = txns[id].id
        /\ tasks[k].related_stage # StageValue(txns[id].current_stage)
        /\ tasks[k].is_blocking
        /\ tasks[k].status # "COMPLETED"}

\* C24: incomplete blocking tasks that a forced advance left behind, their
\* related_stage being an earlier stage, never make can_advance fail: a
\* case before the last stage with no incomplete blocking task of its
\* current stage can advance when the stage requires no document and is
\* refused for the document alone when it requires one, and a
\* blocking-tasks reason names tasks of the current stage only.
C24_BlockingIsScopedToStage ==
    \A id \in DOMAIN txns :
        LET result == can_advance_to_next_stage(tasks, docs, txns[id])
            stage == txns[id].current_stage
        IN  (LeftBehindItems(id) # {} /\ ~IsFinalStage(stage)) =>
               /\ result[2].kind = "blocking" =>
                     /\ IncompleteBlockingItems(id) # {}
                     /\ ListsTitlesOf(result[2], IncompleteBlockingItems(id))
               /\ IncompleteBlockingItems(id) = {} =>
                     IF stage_document_requirements(stage) = <<>>
                     THEN result = <<TRUE, NoReason>>
                     ELSE result[2].kind \in {"document", "none"}

\* can_advance has just said yes to a case in the second stage that still
\* has an incomplete blocking task of the first stage
C24_Witness ==
    /\ last.op = "can_advance" /\ last.result = "true"
    /\ txns[last.txn].current_stage = "TITLE_SEARCH"
    /\ LeftBehindItems(last.txn) # {}
    /\ \E k \in LeftBehindItems(last.txn) :
          tasks[k].related_stage = StageValue("OFFER_ACCEPTED")


\* the tasks stored for case id with this related stage, in table order
StageTasksOf(id, stage) ==
    SelectSeq(tasks, LAMBDA k : /\ k.transaction_id = txns[id].id
                                /\ k.related_stage = StageValue(stage))

\* rows are one copy of the template of stage: as many, with its titles and
\* blocking flags, in its order
IsOneCopyOf(rows, stage) ==
    /\ Len(rows) = Len(stage_tasks(stage))
    /\ \A j \in 1..Len(rows) :
          /\ rows[j].title = stage_tasks(stage)[j].title
          /\ rows[j].is_blocking = stage_tasks(stage)[j].is_blocking

\* C25: with one handler running at a time, in every reachable state and
\* for every case and stage S, the tasks of the case with related_stage = S
\* are one copy of the template of S when the case has entered S (S is at
\* or before its current stage) and none when it has not: never a second
\* copy, whatever was refused, forced or completed in between.
C25_OneGenerationPerStage ==
    \A id \in DOMAIN txns :
        \A i \in 1..Len(STAGE_ORDER) :
            IF i - 1 <= StageIndex(txns[id].current_stage)
            THEN IsOneCopyOf(StageTasksOf(id, STAGE_ORDER[i]), STAGE_ORDER[i])
            ELSE StageTasksOf(id, STAGE_ORDER[i]) = <<>>

\* a case in the last stage, after refused and forced advances, with the
\* nineteen tasks of the seven templates
C25_Witness ==
    \E id \in DOMAIN txns :
        /\ IsFinalStage(txns[id].current_stage)
        /\ Len(TasksOf(id)) = 19
        /\ last.op \in AdvanceCalls /\ last.result = "StageTransitionError"
        /\ \E k \in DOMAIN tasks : tasks[k].status = "COMPLETED"


\* C26 as claimed: after every advance that succeeds the stored history of
\* the case has a stage-entered entry for the stage entered whose forced
\* flag is the force argument of the call, so that an entry with the flag
\* false was written when can_advance was true and a stage left with an
\* unmet requirement shows the flag true on the entry of the next stage.
C26_LogRecordsOverrides ==
    [][\A id \in DOMAIN txns :
          IsSuccessfulAdvance(id) =>
             \E i \in DOMAIN txns'[id].stage_history :
                LET entry == txns'[id].stage_history[i]
                    could == can_advance_to_next_stage(tasks, docs, txns[id])[1]
                IN  /\ "stage" \in DOMAIN entry
                    /\ entry.stage = StageValue(txns'[id].current_stage)
                    /\ entry.force_advanced = last'.force
                    /\ ~entry.force_advanced => could
                    /\ ~could => entry.force_advanced]_vars


\* C27 as claimed: in every reachable state of a case made by
\* create_transaction, the stored history has as many stage-entered entries
\* as the position of the current stage plus one, and the last of them
\* names the current stage.
C27_PointerAndLogAgree ==
    \A id \in DOMAIN txns :
        LET entered == StageEntered(txns[id].stage_history)
        IN  /\ Len(entered) = StageIndex(txns[id].current_stage) + 1
            /\ entered[Len(entered)].stage = StageValue(txns[id].current_stage)


\* the cases that differ from t in nothing but the earnest-money status,
\* the funds-verified flag and the domain-event entries of the history
PaymentVariants(t) ==
    {[t EXCEPT !.earnest_money_status = e,
               !.funds_verified = f,
               !.stage_history = h] :
        e \in EarnestMoneyStatus, f \in BOOLEAN,
        h \in {StageEntered(t.stage_history),
               Append(t.stage_history, [event |-> "funds_verified",
                                        timestamp |-> now])}}

AdvanceColumns ==
    {"current_stage", "stage_started_at", "estimated_closing_date",
     "actual_closing_date", "stage_history"}

\* C29: an advance that succeeds changes, of its case, nothing but the
\* stage pointer, stage_started_at, the closing dates and the history, and
\* adds tasks at the end of the table: every task that was there keeps
\* every field, no document is created or changed, and the earnest-money
\* status, the funds-verified fields and the role assignments of the case
\* stay as they were.
C29_AdvanceFrame ==
    [][\A id \in DOMAIN txns :
          IsSuccessfulAdvance(id) =>
             /\ \A a \in DOMAIN txns[id] \ AdvanceColumns :
                   txns'[id][a] = txns[id][a]
             /\ Len(tasks') > Len(tasks)
             /\ SubSeq(tasks', 1, Len(tasks)) = tasks
             /\ docs' = docs]_vars

\* an advance has just gone through, forced, for a case with a completed
\* and a pending task of the stage it left, a document on file, its
\* earnest money deposited and its funds verified
C29_Witness ==
    /\ last.op \in AdvanceCalls /\ last.result = "ok" /\ last.force
    /\ txns[last.txn].current_stage = "TITLE_SEARCH"
    /\ txns[last.txn].earnest_money_status = "DEPOSITED"
    /\ txns[last.txn].funds_verified
    /\ docs # <<>>
    /\ \E i, j \in DOMAIN tasks :
          /\ tasks[i].related_stage = StageValue("OFFER_ACCEPTED")
          /\ tasks[j].related_stage = StageValue("OFFER_ACCEPTED")
          /\ tasks[i].status = "COMPLETED"
          /\ tasks[j].status = "PENDING"


\* the step creates case id or is an advance of it that went through
IsStageEntryOf(id) ==
    /\ last'.txn = id
    /\ last'.result = "ok"
    /\ last'.op \in AdvanceCalls \cup {"create_transaction"}

\* C30 as claimed: right after create_transaction and after every advance
\* that succeeds, the stored estimated_closing_date is later than the stored
\* stage_started_at by exactly estimate_days_to_close(case) days.
C30_StoredEstimateIsLiveEstimate ==
    [][\A id \in DOMAIN txns' :
          IsStageEntryOf(id) =>
             txns'[id].estimated_closing_date - txns'[id].stage_started_at
                = timedelta(estimate_days_to_close(txns'[id]))]_vars


\* C31: a blocking task of the current stage blocks the unforced advance
\* in every status but COMPLETED, cancelled, in progress, blocked and
\* overdue included: before the last stage, as long as the case has such a
\* task can_advance is false with the blocking reason naming it, and an
\* unforced advance_stage raises StageRequirementError and changes nothing;
\* a step that changes the status of a task to anything but COMPLETED
\* releases no gate.
C31_EveryOpenStatusBlocks ==
    /\ [](\A id \in DOMAIN txns :
             ( /\ ~IsFinalStage(txns[id].current_stage)
               /\ IncompleteBlockingItems(id) # {} ) =>
                /\ ~can_advance_to_next_stage(tasks, docs, txns[id])[1]
                /\ ListsTitlesOf(can_advance_to_next_stage(tasks, docs, txns[id])[2],
                                 IncompleteBlockingItems(id)))
    /\ [][\A id \in DOMAIN txns :
             /\ ( /\ ~IsFinalStage(txns[id].current_stage)
                  /\ IncompleteBlockingItems(id) # {}
                  /\ IsAdvanceStage(id, FALSE) ) =>
                   /\ last'.result = "StageRequirementError"
                   /\ UNCHANGED <<txns, tasks, docs>>
             /\ ( /\ last'.op = "set_task_status"
                  /\ ~can_advance_to_next_stage(tasks, docs, txns[id])[1] ) =>
                   ~can_advance_to_next_stage(tasks', docs', txns'[id])[1]]_vars

\* an unforced advance has just been refused for a case whose only
\* blocking task that is not completed is a cancelled one
C31_Witness ==
    /\ last.op = "advance_stage" /\ ~last.force
    /\ last.result = "StageRequirementError"
    /\ Cardinality(IncompleteBlockingItems(last.txn)) = 1
    /\ \A k \in IncompleteBlockingItems(last.txn) : tasks[k].status = "CANCELLED"
    /\ \E k \in DOMAIN tasks : tasks[k].status = "COMPLETED"


\* the year the clock reads in the runs made here
Year == "2026"

\* C32: with one handler running at a time, whatever the order of the
\* create and advance calls on the cases, every task a step stores gets an
\* identifier that no task stored before has and that no other task of
\* the step gets, so that the identifiers in the store are pairwise
\* different, as numbers and as the texts TASK-year-number.
C32_TaskIdsAreUnique ==
    /\ [](\A k1, k2 \in DOMAIN tasks :
             TaskIdText(Year, tasks[k1].id) = TaskIdText(Year, tasks[k2].id)
                => k1 = k2)
    /\ [][\A j \in DOMAIN AddedTasks :
             /\ AddedTasks[j].id \notin StoredTaskIds
             /\ \A i \in DOMAIN AddedTasks :
                   AddedTasks[i].id = AddedTasks[j].id => i = j]_vars

\* two cases, created and advanced in turn, hold ten tasks with ten
\* identifiers
C32_Witness ==
    /\ Len(txns) = 2
    /\ Len(tasks) = 10
    /\ Cardinality(StoredTaskIds) = 10
    /\ \A id \in DOMAIN txns : txns[id].current_stage = "TITLE_SEARCH"
    /\ tasks[4].transaction_id = 1 /\ tasks[6].transaction_id = 2

(* ---------------------------------------------------------------------- *)
(* C33                                                                     *)
(* ---------------------------------------------------------------------- *)

\* the step is the handler `op` answering for case id
IsPaymentCall(op, id) ==
    /\ last'.op = op
    /\ last'.txn = id
    /\ now' = now

\* the columns of case id whose stored value the step changes
ChangedColumns(id) ==
    {f \in DOMAIN txns[id] : txns'[id][f] # txns[id][f]}

\* a case starts with status and flag unset
StartsUnpaid ==
    \A id \in DOMAIN txns' \ DOMAIN txns :
        /\ txns'[id].earnest_money_status = "PENDING"
        /\ txns'[id].funds_verified = FALSE

\* status and flag are set by their own operation and stay set
StaysPaid ==
    \A id \in DOMAIN txns :
        /\ txns[id].earnest_money_status = "DEPOSITED"
              => txns'[id].earnest_money_status = "DEPOSITED"
        /\ txns[id].funds_verified => txns'[id].funds_verified
        /\ txns'[id].earnest_money_status # txns[id].earnest_money_status
              => IsPaymentCall("deposit_earnest_money", id)
        /\ txns'[id].funds_verified # txns[id].funds_verified
              => IsPaymentCall("verify_funds", id)
        /\ IsPaymentCall("deposit_earnest_money", id)
              => txns'[id].earnest_money_status = "DEPOSITED"
        /\ IsPaymentCall("verify_funds", id)
              => txns'[id].funds_verified

PaymentsOnlyMoveForward ==
    /\ [](\A id \in DOMAIN txns :
            txns[id].earnest_money_status \in {"PENDING", "DEPOSITED"})
    /\ [][StartsUnpaid /\ StaysPaid]_vars

\* C33 as stated: the earnest-money status is pending until the first
\* deposit and deposited from then on, the funds-verified flag is false
\* until the first verification and true from then on, and a repeated
\* deposit or verification changes only the history log and the recorded
\* timestamp.
C33_RepeatChangesOnlyLogAndTimestamp ==
    /\ PaymentsOnlyMoveForward
    /\ [][\A id \in DOMAIN txns :
            /\ ( /\ IsPaymentCall("deposit_earnest_money", id)
                 /\ txns[id].earnest_money_status = "DEPOSITED" )
                  => ChangedColumns(id) \subseteq
                        {"stage_history", "earnest_money_deposited_at"}
            /\ ( /\ IsPaymentCall("verify_funds", id)
                 /\ txns[id].funds_verified )
                  => ChangedColumns(id) \subseteq
                        {"stage_history", "funds_verified_at"}]_vars

\* C33 amended: the earnest-money status is pending until the first
\* deposit and deposited from then on, the funds-verified flag is false
\* until the first verification and true from then on, neither reverts; a
\* repeated deposit changes at most the history log and the recorded deposit
\* time, and a repeated verification at most the history log, the recorded
\* verification time and the recorded verifier.
C33_PaymentsNeverRevert ==
    /\ PaymentsOnlyMoveForward
    /\ [][\A id \in DOMAIN txns :
            /\ ( /\ IsPaymentCall("deposit_earnest_money", id)
                 /\ txns[id].earnest_money_status = "DEPOSITED" )
                  => ChangedColumns(id) \subseteq
                        {"stage_history", "earnest_money_deposited_at"}
            /\ ( /\ IsPaymentCall("verify_funds", id)
                 /\ txns[id].funds_verified )
                  => ChangedColumns(id) \subseteq
                        {"stage_history", "funds_verified_at",
                         "funds_verified_by"}]_vars

\* a case deposited at the request's time 0 and then verified after the
\* clock has moved by the second verifier, the deposit being repeated last
C33_Witness ==
    \E id \in DOMAIN txns :
        /\ txns[id].earnest_money_status = "DEPOSITED"
        /\ txns[id].earnest_money_deposited_at = 0
        /\ txns[id].funds_verified
        /\ txns[id].funds_verified_by = "PARTY-003"
        /\ txns[id].funds_verified_at = MaxTime
        /\ now = MaxTime
        /\ last.op = "deposit_earnest_money"
        /\ last.txn = id

(* ---------------------------------------------------------------------- *)
(* C34                                                                     *)
(* ---------------------------------------------------------------------- *)

\* C34: without force a case whose blocking tasks are completed and whose
\* required documents are approved, stage after stage, and whose unforced
\* advance is retried, reaches the terminal stage in the end, each
\* successful advance moving it one stage, six in all.
C34_UnforcedRunReachesTerminal ==
    /\ (txns # <<>>)
          ~> (txns # <<>> /\ IsFinalStage(txns[1].current_stage))
    /\ [][\A id \in DOMAIN txns :
            IsSuccessfulAdvance(id) =>
               StageIndex(txns'[id].current_stage)
                  = StageIndex(txns[id].current_stage) + 1]_vars

(* ---------------------------------------------------------------------- *)
(* C35                                                                     *)
(* ---------------------------------------------------------------------- *)

\* C35: in the progress of a case exactly one stage is 'current', the
\* current stage of the case; every earlier stage is 'complete' and every
\* later one 'pending'; the entered_at of a stage is set exactly for the
\* stages at or before the current one, and it is the entered_at of a
\* history entry that is a stage entry of that stage, never of a domain
\* event.
C35_ProgressMarksAndDatesStages ==
    \A id \in DOMAIN txns :
        LET stages == get_stage_progress_stages(txns[id])
            current_index == StageIndex(txns[id].current_stage)
        IN  /\ Cardinality({n \in DOMAIN stages :
                               stages[n].status = "current"}) = 1
            /\ stages[current_index + 1].status = "current"
            /\ stages[current_index + 1].stage
                  = StageValue(txns[id].current_stage)
            /\ \A n \in DOMAIN stages :
                  /\ n - 1 < current_index => stages[n].status = "complete"
                  /\ n - 1 > current_index => stages[n].status = "pending"
                  /\ stages[n].entered_at # NoTime <=> n - 1 <= current_index
                  /\ stages[n].entered_at # NoTime =>
                        \E k \in DOMAIN txns[id].stage_history :
                            LET e == txns[id].stage_history[k]
                            IN  /\ "stage" \in DOMAIN e
                                /\ "event" \notin DOMAIN e
                                /\ e.stage = stages[n].stage
                                /\ e.entered_at = stages[n].entered_at

(* ---------------------------------------------------------------------- *)
(* C36                                                                     *)
(* ---------------------------------------------------------------------- *)

\* the task table without the overdue tasks that are not blocking
WithoutOverdueOptional(taskTable, clock) ==
    SelectSeq(taskTable,
              LAMBDA k : ~(is_overdue(k, clock) /\ k.is_blocking = FALSE))

C37_TasksAreDeletedWithTheirCase ==
    /\ [](\A k \in DOMAIN tasks : TxnExists(tasks[k].transaction_id))
    /\ [][\A id \in DOMAIN txns' \ DOMAIN txns :
            \A k \in DOMAIN tasks' :
               tasks'[k].transaction_id = id => k \notin DOMAIN tasks]_vars

====
